---- MODULE Spec2Model ----
(***************************************************************************)
(* Model of the jwt-cpp claims codec and validation engine.                *)
(*                                                                         *)
(* Text is modelled as it is in the program: a std::string is a sequence   *)
(* of bytes (ASCII codes, 0..255).  A token is therefore a byte sequence   *)
(* with two '.' bytes, its segments are base64url text, and the signature  *)
(* is 64 bytes.  JSON text is produced and consumed by nlohmann::json, an  *)
(* external library: a JSON document is modelled as a typed value and its  *)
(* compact text as a tagged byte layout (dump / parse below).  The Ed25519 *)
(* keypair provider is external too: sign is modelled as a deterministic   *)
(* 64-byte function of the key and of the signed bytes.                    *)
(***************************************************************************)
EXTENDS Integers, Sequences, FiniteSets, TLC

VARIABLES
    now,        \* the system clock (Unix seconds)
    claim,      \* the caller's claim object, NoClaim before construction
    token,      \* the token string the caller holds (last encoded or crafted)
    chain,      \* the vector of token strings handed to validateChain
    opts,       \* the ValidationOptions in use
    result,     \* outcome of the last operation
    calls,      \* calls made to the key provider by the last operation
    input,      \* argument of the pure function under test
    output,     \* value returned by the pure function under test
    padding     \* the token string is token followed by this many further 'A'

vars == <<now, claim, token, chain, opts, result, calls, input, output, padding>>

-----------------------------------------------------------------------------
(* Program constants *)

JWT_VERSION == 2
JWT_ALGORITHM == <<101, 100, 50, 53, 53, 49, 57, 45, 110, 107, 101, 121>>   \* "ed25519-nkey"
JWT_TYPE == <<74, 87, 84>>                                                   \* "JWT"
MAX_JWT_SIZE == 10 * 1024 * 1024
SIGNATURE_SIZE == 64
JTI_BYTES == 16

Dot == 46       \* '.'
Pad == 61       \* '='
ChO == 79       \* 'O'
ChA == 65       \* 'A'
ChU == 85       \* 'U'
ChS == 83       \* 'S'

STR_OPERATOR == <<111, 112, 101, 114, 97, 116, 111, 114>>   \* "operator"
STR_ACCOUNT == <<97, 99, 99, 111, 117, 110, 116>>           \* "account"
STR_USER == <<117, 115, 101, 114>>                          \* "user"

-----------------------------------------------------------------------------
(* Base64URL codec (base64url.cpp) *)

\* "ABCDEFGHIJKLMNOPQRSTUVWXYZabcdefghijklmnopqrstuvwxyz0123456789-_"
\* The alphabet of plain Base64, with '+' and '/' in the last two places.
alphabet_Standard ==
    <<65, 66, 67, 68, 69, 70, 71, 72, 73, 74, 75, 76, 77, 78, 79, 80, 81, 82,
      83, 84, 85, 86, 87, 88, 89, 90, 97, 98, 99, 100, 101, 102, 103, 104, 105,
      106, 107, 108, 109, 110, 111, 112, 113, 114, 115, 116, 117, 118, 119,
      120, 121, 122, 48, 49, 50, 51, 52, 53, 54, 55, 56, 57, 43, 47>>

alphabet ==
    <<65, 66, 67, 68, 69, 70, 71, 72, 73, 74, 75, 76, 77, 78, 79, 80, 81, 82,
      83, 84, 85, 86, 87, 88, 89, 90, 97, 98, 99, 100, 101, 102, 103, 104, 105,
      106, 107, 108, 109, 110, 111, 112, 113, 114, 115, 116, 117, 118, 119,
      120, 121, 122, 48, 49, 50, 51, 52, 53, 54, 55, 56, 57, 45, 95>>

\* createDecodeLookup: every entry 0xFF, then the alphabet, then '=' -> 0.
decode_lookup ==
    [c \in 0..255 |->
        IF c = Pad THEN 0
        ELSE IF \E i \in 1..64 : alphabet[i] = c
             THEN (CHOOSE i \in 1..64 : alphabet[i] = c) - 1
             ELSE 255]

\* base64url_encode.  The loops emit, for the group of up to three bytes at
\* 3g+1..3g+3, the 6-bit fields of (b1 << 16 | b2 << 8 | b3) from the top:
\* four characters for a complete group, two or three for a final group of
\* one or two bytes, whose absent bytes contribute zero bits.  Character k of
\* the output is therefore:
base64url_encode(data) ==
    LET size == Len(data)
        ByteAt(j) == IF j <= size THEN data[j] ELSE 0
        CharAt(k) ==
            LET g == (k - 1) \div 4
                triple == ByteAt(3 * g + 1) * 65536 + ByteAt(3 * g + 2) * 256 + ByteAt(3 * g + 3)
                field == CASE (k - 1) % 4 = 0 -> (triple \div 262144) % 64
                           [] (k - 1) % 4 = 1 -> (triple \div 4096) % 64
                           [] (k - 1) % 4 = 2 -> (triple \div 64) % 64
                           [] (k - 1) % 4 = 3 -> triple % 64
            IN  alphabet[field + 1]
        length == 4 * (size \div 3) + (IF size % 3 = 0 THEN 0 ELSE (size % 3) + 1)
    IN  IF size = 0 THEN << >> ELSE [k \in 1..length |-> CharAt(k)] \o << >>

RECURSIVE StripPadding(_)
\* while (!input.empty() && input.back() == '=') input.remove_suffix(1)
StripPadding(s) ==
    IF s # << >> /\ s[Len(s)] = Pad THEN StripPadding(SubSeq(s, 1, Len(s) - 1)) ELSE s

B64Ok(bytes) == [ok |-> TRUE, bytes |-> bytes, err |-> "none"]
B64Err(kind) == [ok |-> FALSE, bytes |-> << >>, err |-> kind]

\* The loops of base64url_decode over the stripped input s.  Complete
\* 4-character groups are looked up and checked first, then the final group:
\* 1 leftover character is a length error, 2 or 3 give 1 or 2 bytes.  Each
\* group of characters at 4g+1..4g+4 yields the bytes of
\* (a << 18 | b << 12 | c << 6 | d), absent characters contributing zero.
DecodeStripped(s) ==
    LET size == Len(s)
        full == 4 * (size \div 4)
        remaining == size - full
        ValueAt(j) == IF j <= size THEN decode_lookup[s[j]] ELSE 0
        ByteAt(k) ==
            LET g == (k - 1) \div 3
                quad == ValueAt(4 * g + 1) * 262144 + ValueAt(4 * g + 2) * 4096
                        + ValueAt(4 * g + 3) * 64 + ValueAt(4 * g + 4)
            IN  CASE (k - 1) % 3 = 0 -> (quad \div 65536) % 256
                  [] (k - 1) % 3 = 1 -> (quad \div 256) % 256
                  [] (k - 1) % 3 = 2 -> quad % 256
        length == 3 * (size \div 4) + (IF remaining = 0 THEN 0 ELSE remaining - 1)
    IN  IF \E j \in 1..full : decode_lookup[s[j]] = 255 THEN B64Err("InvalidEncoding")
        ELSE IF remaining = 1 THEN B64Err("InvalidLength")
        ELSE IF \E j \in (full + 1)..size : decode_lookup[s[j]] = 255
             THEN B64Err("InvalidEncoding")
        ELSE B64Ok([k \in 1..length |-> ByteAt(k)] \o << >>)

base64url_decode(text) ==
    IF text = << >> THEN B64Ok(<< >>)
    ELSE LET s == StripPadding(text)
         IN  IF s = << >> THEN B64Ok(<< >>) ELSE DecodeStripped(s)

-----------------------------------------------------------------------------
(* Token framing (jwt_utils.cpp) *)

\* std::string_view::find(ch, from): the first 1-based position >= from that
\* holds ch, 0 for npos.
Find(s, ch, from) ==
    IF \E k \in from..Len(s) : s[k] = ch
    THEN CHOOSE k \in from..Len(s) : s[k] = ch /\ \A m \in from..(k - 1) : s[m] # ch
    ELSE 0

NoParts == [ok |-> FALSE, header_b64 |-> << >>, payload_b64 |-> << >>,
            signature_b64 |-> << >>, signing_input |-> << >>]

\* A parseJwt that did not look for empty parts.
parseJwt_AnyParts(jwt) ==
    LET first_dot == Find(jwt, Dot, 1)
        second_dot == IF first_dot = 0 THEN 0 ELSE Find(jwt, Dot, first_dot + 1)
        header_b64 == SubSeq(jwt, 1, first_dot - 1)
        payload_b64 == SubSeq(jwt, first_dot + 1, second_dot - 1)
        signature_b64 == SubSeq(jwt, second_dot + 1, Len(jwt))
    IN  IF first_dot = 0 THEN NoParts
        ELSE IF second_dot = 0 THEN NoParts
        ELSE IF Find(jwt, Dot, second_dot + 1) # 0 THEN NoParts
        ELSE [ok |-> TRUE, header_b64 |-> header_b64, payload_b64 |-> payload_b64,
              signature_b64 |-> signature_b64,
              signing_input |-> header_b64 \o <<Dot>> \o payload_b64]

parseJwt(jwt) ==
    LET first_dot == Find(jwt, Dot, 1)
        second_dot == IF first_dot = 0 THEN 0 ELSE Find(jwt, Dot, first_dot + 1)
        header_b64 == SubSeq(jwt, 1, first_dot - 1)
        payload_b64 == SubSeq(jwt, first_dot + 1, second_dot - 1)
        signature_b64 == SubSeq(jwt, second_dot + 1, Len(jwt))
    IN  IF first_dot = 0 THEN NoParts
        ELSE IF second_dot = 0 THEN NoParts
        ELSE IF Find(jwt, Dot, second_dot + 1) # 0 THEN NoParts
        ELSE IF header_b64 = << >> THEN NoParts
        ELSE IF payload_b64 = << >> THEN NoParts
        ELSE IF signature_b64 = << >> THEN NoParts
        ELSE [ok |-> TRUE, header_b64 |-> header_b64, payload_b64 |-> payload_b64,
              signature_b64 |-> signature_b64,
              signing_input |-> header_b64 \o <<Dot>> \o payload_b64]

-----------------------------------------------------------------------------
(* JSON documents and their compact text (nlohmann::json, external) *)

JStr(s) == [t |-> "str", v |-> s]
JInt(n) == [t |-> "int", v |-> n]
JObj(f) == [t |-> "obj", v |-> f]
JArr(q) == [t |-> "arr", v |-> q]
\* a floating-point number, held as its whole part and its tenths (both >= 0)
JFloat(whole, tenths) == [t |-> "flt", v |-> <<whole, tenths>>]

EmptyObject == [k \in {} |-> JInt(0)]

\* The member names the codec reads and writes, in the order dump emits them.
KeyNames == << "alg", "exp", "iat", "iss", "issuer_account", "jti", "name",
               "nats", "signing_keys", "sub", "typ", "type", "version" >>

\* The byte that opens the text of a value of each type.
Tag == [str |-> 1, int |-> 2, obj |-> 3, arr |-> 4, flt |-> 5]

\* json::contains(key): false on anything that is not an object.
Contains(j, key) == j.t = "obj" /\ key \in DOMAIN j.v
IsString(j) == j.t = "str"
IsInteger(j) == j.t = "int"
\* get<std::int64_t>() returns for a number of either kind and throws a
\* type_error for everything else; it truncates a floating-point number.
IsNumber(j) == j.t \in {"int", "flt"}
AsInteger(j) == IF j.t = "flt" THEN j.v[1] ELSE j.v
IsArray(j) == j.t = "arr"
\* json == "literal" / json == number comparisons
EqualsString(j, s) == j.t = "str" /\ j.v = s
EqualsInt(j, n) == (j.t = "int" /\ j.v = n) \/ (j.t = "flt" /\ j.v = <<n, 0>>)

\* The checker's integers are narrower than the program's: INT64_MAX stands
\* for the largest std::int64_t and is held as the largest integer the
\* checker has.  What is modelled of it is that it is the largest value, that
\* a JSON text can carry it, and that a sum beyond it leaves the type.
INT64_MAX == 2147483647

RECURSIVE dump(_), DumpMembers(_, _), DumpElements(_, _)
\* json::dump(): compact text of a document.
dump(j) ==
    CASE j.t = "str" -> <<Tag.str, Len(j.v)>> \o j.v
      [] j.t = "int" -> IF j.v = INT64_MAX THEN <<Tag.int, 2, 0>>
                        ELSE <<Tag.int, IF j.v < 0 THEN 1 ELSE 0, IF j.v < 0 THEN -j.v ELSE j.v>>
      [] j.t = "obj" -> <<Tag.obj, Cardinality(DOMAIN j.v)>> \o DumpMembers(j.v, 1)
      [] j.t = "arr" -> <<Tag.arr, Len(j.v)>> \o DumpElements(j.v, 1)
      [] j.t = "flt" -> <<Tag.flt, j.v[1], j.v[2]>>

DumpMembers(f, k) ==
    IF k > Len(KeyNames) THEN << >>
    ELSE IF KeyNames[k] \in DOMAIN f
         THEN <<k>> \o dump(f[KeyNames[k]]) \o DumpMembers(f, k + 1)
         ELSE DumpMembers(f, k + 1)

DumpElements(q, k) ==
    IF k > Len(q) THEN << >> ELSE dump(q[k]) \o DumpElements(q, k + 1)

ParseFail == [ok |-> FALSE, val |-> JInt(0), next |-> 0]

RECURSIVE ParseValue(_, _), ParseMembers(_, _, _, _), ParseElements(_, _, _, _)
\* One value of the text b starting at position p.
ParseValue(b, p) ==
    IF p + 1 > Len(b) THEN ParseFail
    ELSE CASE b[p] = Tag.str ->
                IF p + 1 + b[p + 1] > Len(b) THEN ParseFail
                ELSE [ok |-> TRUE, val |-> JStr(SubSeq(b, p + 2, p + 1 + b[p + 1])),
                      next |-> p + 2 + b[p + 1]]
           [] b[p] = Tag.int ->
                IF p + 2 > Len(b) \/ b[p + 1] > 2 THEN ParseFail
                ELSE IF b[p + 1] = 2
                THEN IF b[p + 2] # 0 THEN ParseFail
                     ELSE [ok |-> TRUE, val |-> JInt(INT64_MAX), next |-> p + 3]
                ELSE [ok |-> TRUE,
                      val |-> JInt(IF b[p + 1] = 1 THEN -b[p + 2] ELSE b[p + 2]),
                      next |-> p + 3]
           [] b[p] = Tag.flt ->
                IF p + 2 > Len(b) \/ b[p + 2] > 9 THEN ParseFail
                ELSE [ok |-> TRUE, val |-> JFloat(b[p + 1], b[p + 2]), next |-> p + 3]
           [] b[p] = Tag.obj -> ParseMembers(b, p + 2, b[p + 1], EmptyObject)
           [] b[p] = Tag.arr -> ParseElements(b, p + 2, b[p + 1], << >>)
           [] OTHER -> ParseFail

ParseMembers(b, p, n, acc) ==
    IF n = 0 THEN [ok |-> TRUE, val |-> JObj(acc), next |-> p]
    ELSE IF p > Len(b) \/ b[p] \notin 1..Len(KeyNames) THEN ParseFail
    ELSE LET r == ParseValue(b, p + 1)
         IN  IF ~r.ok THEN ParseFail
             ELSE ParseMembers(b, r.next, n - 1, (KeyNames[b[p]] :> r.val) @@ acc)

ParseElements(b, p, n, acc) ==
    IF n = 0 THEN [ok |-> TRUE, val |-> JArr(acc), next |-> p]
    ELSE LET r == ParseValue(b, p)
         IN  IF ~r.ok THEN ParseFail
             ELSE ParseElements(b, r.next, n - 1, Append(acc, r.val))

\* json::parse(text): the document, or a parse error when the text is not
\* exactly one document.
parse(b) ==
    LET r == ParseValue(b, 1)
    IN  IF r.ok /\ r.next = Len(b) + 1 THEN [ok |-> TRUE, val |-> r.val]
        ELSE [ok |-> FALSE, val |-> JInt(0)]

-----------------------------------------------------------------------------
(* Keypair provider (nkeys, external) *)

IsDigit(c) == c \in 49..57
\* A public key string: type prefix O, A or U followed by a key identifier.
ValidPublicKey(pk) == Len(pk) = 2 /\ pk[1] \in {ChO, ChA, ChU} /\ IsDigit(pk[2])
\* A seed string: 'S', then the public key it generates.
ValidSeed(seed) == Len(seed) = 3 /\ seed[1] = ChS /\ ValidPublicKey(Tail(seed))
PublicKeyOf(seed) == Tail(seed)
SeedOf(pk) == <<ChS>> \o pk

RECURSIVE Mix(_, _, _)
\* Weighted sum of the data bytes at positions j, j + 64, j + 128, ...
Mix(data, j, w) ==
    IF j > Len(data) THEN 0 ELSE w * data[j] + Mix(data, j + SIGNATURE_SIZE, w + 2)

\* keypair->sign(data): deterministic, 64 bytes, depends on the key and on
\* every byte of the data.
Sign(pk, data) ==
    [i \in 1..SIGNATURE_SIZE |->
        (pk[1] + 7 * pk[2] + 3 * i + Len(data) + Mix(data, i, 1)) % 256] \o << >>

\* public_key->verify(data, signature)
Verify(pk, data, signature) == signature = Sign(pk, data)

-----------------------------------------------------------------------------
(* Claim variants (operator_claims.cpp, account_claims.cpp, user_claims.cpp) *)

None == << >>
Some(x) == <<x>>

\* The Impl of a claim object; the fields a variant does not have stay empty.
NewImpl(variant, subject, issuer) ==
    [variant |-> variant, subject_ |-> subject, issuer_ |-> issuer, name_ |-> None,
     issuedAt_ |-> 0, expires_ |-> 0, signingKeys_ |-> << >>, issuerAccount_ |-> None]

OperatorClaims(operatorPublicKey) == NewImpl("operator", operatorPublicKey, operatorPublicKey)
AccountClaims(accountPublicKey) == NewImpl("account", accountPublicKey, << >>)
UserClaims(userPublicKey) == NewImpl("user", userPublicKey, << >>)

setName(c, name) == [c EXCEPT !.name_ = Some(name)]
setExpires(c, exp) == [c EXCEPT !.expires_ = exp]
setIssuer(c, issuerKey) == [c EXCEPT !.issuer_ = issuerKey]
addSigningKey(c, publicKey) == [c EXCEPT !.signingKeys_ = Append(@, publicKey)]
setIssuerAccount(c, accountPublicKey) == [c EXCEPT !.issuerAccount_ = Some(accountPublicKey)]

\* The expiry rule shared by the three validate() methods.
ExpiryBroken(c) == c.expires_ > 0 /\ c.issuedAt_ > 0 /\ c.expires_ <= c.issuedAt_

\* validate(): TRUE when it returns, FALSE when it throws std::invalid_argument.
OperatorClaims_validate(c) ==
    IF c.subject_ = << >> THEN FALSE
    ELSE IF c.issuer_ = << >> THEN FALSE
    ELSE IF c.subject_[1] # ChO THEN FALSE
    ELSE IF ExpiryBroken(c) THEN FALSE
    ELSE TRUE

AccountClaims_validate(c) ==
    IF c.subject_ = << >> THEN FALSE
    ELSE IF c.issuer_ = << >> THEN FALSE
    ELSE IF c.subject_[1] # ChA THEN FALSE
    ELSE IF c.issuer_[1] # ChO THEN FALSE
    ELSE IF ExpiryBroken(c) THEN FALSE
    ELSE TRUE

\* A user rule that took any non-empty issuer, as the operator's does.
UserClaims_validate_AnyIssuer(c) ==
    IF c.subject_ = << >> THEN FALSE
    ELSE IF c.issuer_ = << >> THEN FALSE
    ELSE IF c.subject_[1] # ChU THEN FALSE
    ELSE IF ExpiryBroken(c) THEN FALSE
    ELSE TRUE

UserClaims_validate(c) ==
    IF c.subject_ = << >> THEN FALSE
    ELSE IF c.issuer_ = << >> THEN FALSE
    ELSE IF c.subject_[1] # ChU THEN FALSE
    ELSE IF c.issuer_[1] # ChA THEN FALSE
    ELSE IF ExpiryBroken(c) THEN FALSE
    ELSE TRUE

\* Claims::validate(), dispatched on the dynamic type.
Claims_validate(c) ==
    CASE c.variant = "operator" -> OperatorClaims_validate(c)
      [] c.variant = "account" -> AccountClaims_validate(c)
      [] c.variant = "user" -> UserClaims_validate(c)

-----------------------------------------------------------------------------
(* Encoding *)

HexDigits == <<48, 49, 50, 51, 52, 53, 54, 55, 56, 57, 97, 98, 99, 100, 101, 102>>

RECURSIVE HexOf(_, _)
\* std::hex << std::setw(2) << std::setfill('0') of every byte from k on.
HexOf(bytes, k) ==
    IF k > Len(bytes) THEN << >>
    ELSE << HexDigits[(bytes[k] \div 16) + 1], HexDigits[(bytes[k] % 16) + 1] >>
         \o HexOf(bytes, k + 1)

\* generateJti(): the 16 bytes drawn from nkeys::secureRandomBytes, in hex.
generateJti(random_bytes) == HexOf(random_bytes, 1)

\* createHeader()
createHeader == dump(JObj(("typ" :> JStr(JWT_TYPE)) @@ ("alg" :> JStr(JWT_ALGORITHM))))

RECURSIVE KeysToJson(_, _)
KeysToJson(keys, k) ==
    IF k > Len(keys) THEN << >> ELSE <<JStr(keys[k])>> \o KeysToJson(keys, k + 1)

\* The nats object each encode() builds.
NatsClaims(c) ==
    CASE c.variant = "operator" ->
            ("type" :> JStr(STR_OPERATOR)) @@ ("version" :> JInt(JWT_VERSION))
            @@ (IF c.signingKeys_ # << >>
                THEN ("signing_keys" :> JArr(KeysToJson(c.signingKeys_, 1)))
                ELSE EmptyObject)
      [] c.variant = "account" ->
            ("type" :> JStr(STR_ACCOUNT)) @@ ("version" :> JInt(JWT_VERSION))
            @@ (IF c.signingKeys_ # << >>
                THEN ("signing_keys" :> JArr(KeysToJson(c.signingKeys_, 1)))
                ELSE EmptyObject)
      [] c.variant = "user" ->
            ("type" :> JStr(STR_USER)) @@ ("version" :> JInt(JWT_VERSION))
            @@ (IF c.issuerAccount_ # None
                THEN ("issuer_account" :> JStr(c.issuerAccount_[1]))
                ELSE EmptyObject)

\* The payload document encode() builds, iat being already chosen.
BuildPayload(c, jti, iat) ==
    JObj(("jti" :> JStr(jti)) @@ ("iat" :> JInt(iat)) @@ ("iss" :> JStr(c.issuer_))
         @@ ("sub" :> JStr(c.subject_))
         @@ (IF c.name_ # None THEN ("name" :> JStr(c.name_[1])) ELSE EmptyObject)
         @@ (IF c.expires_ > 0 THEN ("exp" :> JInt(c.expires_)) ELSE EmptyObject)
         @@ ("nats" :> JObj(NatsClaims(c))))

EncodeThrow(kind, providerCalls) ==
    [ok |-> FALSE, jwt |-> << >>, err |-> kind, calls |-> providerCalls,
     signed |-> << >>, jti |-> << >>]

\* An encode that drew the jti before validating the claim.
encode_JtiFirst(c, seed, random_bytes, clock) ==
    IF ~Claims_validate(c) THEN EncodeThrow("StructuralInvalid", <<"randomBytes">>)
    ELSE LET jti == generateJti(random_bytes)
             iat == IF c.issuedAt_ = 0 THEN clock ELSE c.issuedAt_
             header_b64 == base64url_encode(createHeader)
             payload_b64 == base64url_encode(dump(BuildPayload(c, jti, iat)))
             signing_input == header_b64 \o <<Dot>> \o payload_b64
         IN  IF ~ValidSeed(seed) THEN EncodeThrow("InvalidSeed", <<"randomBytes", "FromSeed">>)
             ELSE [ok |-> TRUE,
                   jwt |-> signing_input \o <<Dot>>
                           \o base64url_encode(Sign(PublicKeyOf(seed), signing_input)),
                   err |-> "none",
                   calls |-> <<"randomBytes", "FromSeed", "sign">>,
                   signed |-> signing_input,
                   jti |-> jti]

\* An encode that signed the payload part alone.
encode_SignsPayload(c, seed, random_bytes, clock) ==
    IF ~Claims_validate(c) THEN EncodeThrow("StructuralInvalid", << >>)
    ELSE LET jti == generateJti(random_bytes)
             iat == IF c.issuedAt_ = 0 THEN clock ELSE c.issuedAt_
             header_b64 == base64url_encode(createHeader)
             payload_b64 == base64url_encode(dump(BuildPayload(c, jti, iat)))
         IN  IF ~ValidSeed(seed) THEN EncodeThrow("InvalidSeed", <<"randomBytes", "FromSeed">>)
             ELSE [ok |-> TRUE,
                   jwt |-> header_b64 \o <<Dot>> \o payload_b64 \o <<Dot>>
                           \o base64url_encode(Sign(PublicKeyOf(seed), payload_b64)),
                   err |-> "none",
                   calls |-> <<"randomBytes", "FromSeed", "sign">>,
                   signed |-> payload_b64,
                   jti |-> jti]

\* encode(seed) of the three variants: validate, draw the jti, read the clock
\* when issuedAt is unset, build and serialise the payload, sign
\* "header.payload", append the signature.  random_bytes and clock are what
\* the key provider and the system clock return to this call.
encode(c, seed, random_bytes, clock) ==
    IF ~Claims_validate(c) THEN EncodeThrow("StructuralInvalid", << >>)
    ELSE LET jti == generateJti(random_bytes)
             iat == IF c.issuedAt_ = 0 THEN clock ELSE c.issuedAt_
             header_b64 == base64url_encode(createHeader)
             payload_b64 == base64url_encode(dump(BuildPayload(c, jti, iat)))
             signing_input == header_b64 \o <<Dot>> \o payload_b64
         IN  IF ~ValidSeed(seed) THEN EncodeThrow("InvalidSeed", <<"randomBytes", "FromSeed">>)
             ELSE [ok |-> TRUE,
                   jwt |-> signing_input \o <<Dot>>
                           \o base64url_encode(Sign(PublicKeyOf(seed), signing_input)),
                   err |-> "none",
                   calls |-> <<"randomBytes", "FromSeed", "sign">>,
                   signed |-> signing_input,
                   jti |-> jti]

-----------------------------------------------------------------------------
(* Decoding *)

NoClaim == NewImpl("none", << >>, << >>)

DecodeThrow(kind) == [ok |-> FALSE, claims |-> NoClaim, err |-> kind]
DecodeReturn(c) == [ok |-> TRUE, claims |-> c, err |-> "none"]

\* Decode a base64url segment and parse it as JSON; err names the exception.
SegmentJson(segment_b64) ==
    LET bytes == base64url_decode(segment_b64)
        doc == parse(bytes.bytes)
    IN  IF ~bytes.ok THEN [ok |-> FALSE, val |-> JInt(0), err |-> bytes.err]
        ELSE IF ~doc.ok THEN [ok |-> FALSE, val |-> JInt(0), err |-> "InvalidPayload"]
        ELSE [ok |-> TRUE, val |-> doc.val, err |-> "none"]

AllStrings(arr) == \A k \in 1..Len(arr) : IsString(arr[k])
StringsOf(arr) == [k \in 1..Len(arr) |-> arr[k].v] \o << >>

\* The part of a per-variant decoder after the nats checks: extract the
\* required fields, construct the claim, populate the optional fields,
\* validate.
Reconstruct(payload, nats, variant) ==
    IF ~Contains(payload, "sub") THEN DecodeThrow("MissingField")
    ELSE IF ~IsString(payload.v["sub"]) THEN DecodeThrow("InvalidField")
    ELSE IF ~Contains(payload, "iss") THEN DecodeThrow("MissingField")
    ELSE IF ~IsString(payload.v["iss"]) THEN DecodeThrow("InvalidField")
    ELSE IF ~Contains(payload, "iat") THEN DecodeThrow("MissingField")
    ELSE IF ~IsNumber(payload.v["iat"]) THEN DecodeThrow("InvalidField")
    ELSE IF Contains(payload, "name") /\ ~IsString(payload.v["name"])
         THEN DecodeThrow("InvalidField")
    ELSE IF Contains(payload, "exp") /\ ~IsNumber(payload.v["exp"])
         THEN DecodeThrow("InvalidField")
    ELSE LET c0 == [NewImpl(variant, payload.v["sub"].v, payload.v["iss"].v)
                        EXCEPT !.issuedAt_ = AsInteger(payload.v["iat"])]
             c1 == IF Contains(payload, "name") THEN setName(c0, payload.v["name"].v) ELSE c0
             c2 == IF Contains(payload, "exp") THEN setExpires(c1, AsInteger(payload.v["exp"])) ELSE c1
         IN  IF variant = "user"
             THEN IF Contains(nats, "issuer_account") /\ ~IsString(nats.v["issuer_account"])
                  THEN DecodeThrow("InvalidField")
                  ELSE LET c3 == IF Contains(nats, "issuer_account")
                                 THEN setIssuerAccount(c2, nats.v["issuer_account"].v)
                                 ELSE c2
                       IN  IF Claims_validate(c3) THEN DecodeReturn(c3)
                           ELSE DecodeThrow("StructuralInvalid")
             ELSE IF Contains(nats, "signing_keys") /\ IsArray(nats.v["signing_keys"])
                     /\ ~AllStrings(nats.v["signing_keys"].v)
                  THEN DecodeThrow("InvalidField")
                  ELSE LET c3 == IF Contains(nats, "signing_keys")
                                    /\ IsArray(nats.v["signing_keys"])
                                 THEN [c2 EXCEPT !.signingKeys_ =
                                            StringsOf(nats.v["signing_keys"].v)]
                                 ELSE c2
                       IN  IF Claims_validate(c3) THEN DecodeReturn(c3)
                           ELSE DecodeThrow("StructuralInvalid")

\* The body the three per-variant decoders share: split, header and alg,
\* payload, nats object, type, version, then Reconstruct.
DecodeVariant(jwt, typeString, variant) ==
    LET parts == parseJwt(jwt)
        header == SegmentJson(parts.header_b64)
        payload == SegmentJson(parts.payload_b64)
        nats == payload.val.v["nats"]
    IN  IF ~parts.ok THEN DecodeThrow("MalformedToken")
        ELSE IF ~header.ok THEN DecodeThrow(header.err)
        ELSE IF ~Contains(header.val, "alg")
                \/ ~EqualsString(header.val.v["alg"], JWT_ALGORITHM)
             THEN DecodeThrow("UnsupportedAlgorithm")
        ELSE IF ~payload.ok THEN DecodeThrow(payload.err)
        ELSE IF ~Contains(payload.val, "nats") THEN DecodeThrow("MissingField")
        ELSE IF ~Contains(nats, "type") THEN DecodeThrow("TypeMismatch")
        ELSE IF ~EqualsString(nats.v["type"], typeString)
             THEN IF IsString(nats.v["type"]) THEN DecodeThrow("TypeMismatch")
                  ELSE DecodeThrow("InvalidField")
        ELSE IF ~Contains(nats, "version") \/ ~EqualsInt(nats.v["version"], JWT_VERSION)
             THEN DecodeThrow("UnsupportedVersion")
        ELSE Reconstruct(payload.val, nats, variant)

\* The nats.type string each type-specific decoder insists on.
TypeStringOf(variant) ==
    IF variant = "operator" THEN STR_OPERATOR
    ELSE IF variant = "account" THEN STR_ACCOUNT
    ELSE STR_USER

\* The three type-specific decoders, by the claim type they decode.
decodeClaims(variant, jwt) == DecodeVariant(jwt, TypeStringOf(variant), variant)
decodeOperatorClaims(jwt) == decodeClaims("operator", jwt)
decodeAccountClaims(jwt) == decodeClaims("account", jwt)
decodeUserClaims(jwt) == decodeClaims("user", jwt)

\* A dispatch that sent every known type to the operator's decoder.
VariantOf_AlwaysOperator(type) == "operator"

\* The decoder jwt::decode dispatches to for each type string it knows.
VariantOf(type) ==
    IF type = STR_OPERATOR THEN "operator"
    ELSE IF type = STR_ACCOUNT THEN "account"
    ELSE "user"

\* jwt::decode: peek nats.type in the payload and dispatch to
\* decodeOperatorClaims, decodeAccountClaims or decodeUserClaims.
decode(jwt) ==
    LET parts == parseJwt(jwt)
        payload == SegmentJson(parts.payload_b64)
        nats == payload.val.v["nats"]
        type == nats.v["type"]
    IN  IF ~parts.ok THEN DecodeThrow("MalformedToken")
        ELSE IF ~payload.ok THEN DecodeThrow(payload.err)
        ELSE IF ~Contains(payload.val, "nats") THEN DecodeThrow("MissingField")
        ELSE IF ~Contains(nats, "type") THEN DecodeThrow("MissingField")
        ELSE IF ~IsString(type) THEN DecodeThrow("InvalidField")
        ELSE IF type.v \in {STR_OPERATOR, STR_ACCOUNT, STR_USER}
        THEN decodeClaims(VariantOf(type.v), jwt)
        ELSE DecodeThrow("UnknownClaimType")

-----------------------------------------------------------------------------
(* Signature verification *)

\* A verifySignature that accepts any 64 bytes under a well-formed key.
verifySignature_AnySignature(issuer_public_key, signing_input, signature_b64) ==
    LET signature_bytes == base64url_decode(signature_b64)
    IN  IF ~signature_bytes.ok THEN "throw"
        ELSE IF Len(signature_bytes.bytes) # SIGNATURE_SIZE THEN "throw"
        ELSE IF ~ValidPublicKey(issuer_public_key) THEN "throw"
        ELSE "true"

\* verifySignature: "true" / "false" as returned by the verifier, "throw" for
\* the std::invalid_argument it raises on any error.
verifySignature(issuer_public_key, signing_input, signature_b64) ==
    LET signature_bytes == base64url_decode(signature_b64)
    IN  IF ~signature_bytes.ok THEN "throw"
        ELSE IF Len(signature_bytes.bytes) # SIGNATURE_SIZE THEN "throw"
        ELSE IF ~ValidPublicKey(issuer_public_key) THEN "throw"
        ELSE IF Verify(issuer_public_key, signing_input, signature_bytes.bytes)
             THEN "true" ELSE "false"

\* The try block of jwt::verify: what verifySignature returns, or "throw" when
\* a step before it raises.
verifyTry(jwt) ==
    LET parts == parseJwt(jwt)
        payload == SegmentJson(parts.payload_b64)
    IN  IF ~parts.ok THEN "throw"
        ELSE IF ~payload.ok THEN "throw"
        ELSE IF ~Contains(payload.val, "iss") THEN "false"
        ELSE IF ~IsString(payload.val.v["iss"]) THEN "throw"
        ELSE verifySignature(payload.val.v["iss"].v, parts.signing_input,
                             parts.signature_b64)

\* A verify whose catch block returned true instead.
verify_CatchTrue(jwt) == verifyTry(jwt) # "false"

\* jwt::verify: catch (...) turns every exception into false.
verify(jwt) == verifyTry(jwt) = "true"

-----------------------------------------------------------------------------
(* Validation engine (validation.hpp, validation.cpp) *)

\* ValidationResult: error is the optional message; a message is modelled by
\* what it says: the failure kind, the index it names (-1 when it names none)
\* and the kind of the wrapped failure ("none" when it wraps none).
Message(kind, index, inner) == [kind |-> kind, index |-> index, inner |-> inner]
success == [valid |-> TRUE, error |-> None]
failure(msg) == [valid |-> FALSE, error |-> Some(msg)]

\* In the order of the struct: checkExpiration, checkNotBefore,
\* clockSkewSeconds, checkSignature, checkIssuerChain.
ValidationOptions(exp, nbf, skew, sig, issuerChain) ==
    [checkExpiration |-> exp, checkNotBefore |-> nbf, clockSkewSeconds |-> skew,
     checkSignature |-> sig, checkIssuerChain |-> issuerChain]

DefaultOptions == ValidationOptions(TRUE, FALSE, 0, TRUE, FALSE)
strict == ValidationOptions(TRUE, TRUE, 0, TRUE, TRUE)
permissive == ValidationOptions(FALSE, FALSE, 300, FALSE, FALSE)

\* clock is what getCurrentTime() returns to the call.
validateExpiration(claims, clockSkewSeconds, clock) ==
    LET exp == claims.expires_
        expiresWithSkew == exp + clockSkewSeconds
    IN  IF exp <= 0 THEN success
        ELSE IF clock > expiresWithSkew THEN failure(Message("Expired", -1, "none"))
        ELSE success

validateNotBefore(claims, clockSkewSeconds, clock) ==
    LET iat == claims.issuedAt_
        issuedWithSkew == iat - clockSkewSeconds
    IN  IF iat <= 0 THEN success
        ELSE IF clock < issuedWithSkew THEN failure(Message("NotYetValid", -1, "none"))
        ELSE success

validateTiming(claims, options, clock) ==
    LET nbfResult == validateNotBefore(claims, options.clockSkewSeconds, clock)
        expResult == validateExpiration(claims, options.clockSkewSeconds, clock)
    IN  IF options.checkNotBefore /\ ~nbfResult.valid THEN nbfResult
        ELSE IF options.checkExpiration /\ ~expResult.valid THEN expResult
        ELSE success

\* std::int64_t arithmetic: a sum beyond INT64_MAX, or below the smallest
\* value, leaves the type (signed overflow, undefined behaviour).
Int64Overflows(a, b) ==
    \/ b > 0 /\ a > INT64_MAX - b
    \/ b < 0 /\ a < (-INT64_MAX) - b - 1

\* What validateExpiration, validateNotBefore and validateTiming can return:
\* the one result above when exp + skew and iat - skew are representable,
\* either result when the sum overflows (the build may wrap it or may
\* compare as if it had not overflowed).
validateExpirationOutcomes(claims, clockSkewSeconds, clock) ==
    IF claims.expires_ > 0 /\ Int64Overflows(claims.expires_, clockSkewSeconds)
    THEN {success, failure(Message("Expired", -1, "none"))}
    ELSE {validateExpiration(claims, clockSkewSeconds, clock)}

validateNotBeforeOutcomes(claims, clockSkewSeconds, clock) ==
    IF claims.issuedAt_ > 0 /\ Int64Overflows(claims.issuedAt_, -clockSkewSeconds)
    THEN {success, failure(Message("NotYetValid", -1, "none"))}
    ELSE {validateNotBefore(claims, clockSkewSeconds, clock)}

validateTimingOutcomes(claims, options, clock) ==
    {IF options.checkNotBefore /\ ~nbfResult.valid THEN nbfResult
     ELSE IF options.checkExpiration /\ ~expResult.valid THEN expResult
     ELSE success :
        nbfResult \in validateNotBeforeOutcomes(claims, options.clockSkewSeconds, clock),
        expResult \in validateExpirationOutcomes(claims, options.clockSkewSeconds, clock)}

\* A validateIssuerChain that compared the key types only.
validateIssuerChain_TypesOnly(child, parent) ==
    IF child.issuer_ = << >> THEN failure(Message("ChainBroken", -1, "none"))
    ELSE IF parent.subject_ = << >> THEN failure(Message("ChainBroken", -1, "none"))
    ELSE IF child.issuer_[1] # parent.subject_[1]
    THEN failure(Message("ChainBroken", -1, "none"))
    ELSE success

validateIssuerChain(child, parent) ==
    LET childIssuer == child.issuer_
        parentSubject == parent.subject_
    IN  IF childIssuer = << >> THEN failure(Message("ChainBroken", -1, "none"))
        ELSE IF parentSubject = << >> THEN failure(Message("ChainBroken", -1, "none"))
        ELSE IF childIssuer # parentSubject THEN failure(Message("ChainBroken", -1, "none"))
        ELSE success

\* A validateKeyHierarchy that let any operator sign an operator.
validateKeyHierarchy_AnyOperator(child, parent) ==
    LET childType == child.subject_[1]
        parentType == parent.subject_[1]
    IN  IF child.subject_ = << >> \/ child.issuer_ = << >> \/ parent.subject_ = << >>
        THEN failure(Message("HierarchyViolation", -1, "none"))
        ELSE IF child.issuer_[1] # parentType
        THEN failure(Message("HierarchyViolation", -1, "none"))
        ELSE IF childType = ChO /\ parentType = ChO THEN success
        ELSE IF childType = ChA /\ parentType = ChO THEN success
        ELSE IF childType = ChU /\ parentType = ChA THEN success
        ELSE failure(Message("HierarchyViolation", -1, "none"))

validateKeyHierarchy(child, parent) ==
    LET childSubject == child.subject_
        childIssuer == child.issuer_
        parentSubject == parent.subject_
        childType == childSubject[1]
        issuerType == childIssuer[1]
        parentType == parentSubject[1]
    IN  IF childSubject = << >> \/ childIssuer = << >> \/ parentSubject = << >>
        THEN failure(Message("HierarchyViolation", -1, "none"))
        ELSE IF issuerType # parentType
        THEN failure(Message("HierarchyViolation", -1, "none"))
        ELSE IF childType = ChO /\ parentType = ChO
        THEN IF childSubject # parentSubject
             THEN failure(Message("HierarchyViolation", -1, "none"))
             ELSE success
        ELSE IF childType = ChA /\ parentType = ChO THEN success
        ELSE IF childType = ChU /\ parentType = ChA THEN success
        ELSE failure(Message("HierarchyViolation", -1, "none"))

\* A validate that looked at the timing before the signature.
validateSteps_TimingFirst(decoded, verified, options, clock) ==
    LET timingResult == validateTiming(decoded.claims, options, clock)
    IN  IF ~decoded.ok THEN failure(Message("DecodeFailed", -1, decoded.err))
        ELSE IF ~timingResult.valid THEN timingResult
        ELSE IF options.checkSignature /\ ~verified
        THEN failure(Message("SignatureInvalid", -1, "none"))
        ELSE IF ~Claims_validate(decoded.claims)
        THEN failure(Message("StructuralInvalid", -1, "none"))
        ELSE success

\* Body of validate(const std::string&, const ValidationOptions&) after its
\* two calls: decoded is what decode(jwt) returned or threw, verified what
\* verify(jwt) returned (read only when checkSignature is set).
validateSteps(decoded, verified, options, clock) ==
    LET timingResult == validateTiming(decoded.claims, options, clock)
    IN  IF ~decoded.ok THEN failure(Message("DecodeFailed", -1, decoded.err))
        ELSE IF options.checkSignature /\ ~verified
        THEN failure(Message("SignatureInvalid", -1, "none"))
        ELSE IF ~timingResult.valid THEN timingResult
        ELSE IF ~Claims_validate(decoded.claims)
        THEN failure(Message("StructuralInvalid", -1, "none"))
        ELSE success

\* validate(const std::string&, const ValidationOptions&)
validate(jwt, options, clock) ==
    validateSteps(decode(jwt), verify(jwt), options, clock)

\* The timing checks that options enable leave std::int64_t on these claims.
TimingOverflows(claims, options) ==
    \/ /\ options.checkNotBefore
       /\ claims.issuedAt_ > 0
       /\ Int64Overflows(claims.issuedAt_, -options.clockSkewSeconds)
    \/ /\ options.checkExpiration
       /\ claims.expires_ > 0
       /\ Int64Overflows(claims.expires_, options.clockSkewSeconds)

\* What validate(jwt, opts) can return: the one result above when the timing
\* sums are representable, otherwise the steps of validate with either
\* result of the overflowing check.
validateOutcomes(jwt, options, clock) ==
    LET decoded == decode(jwt)
    IN  IF decoded.ok /\ TimingOverflows(decoded.claims, options)
        THEN {IF options.checkSignature /\ ~verify(jwt)
              THEN failure(Message("SignatureInvalid", -1, "none"))
              ELSE IF ~timingResult.valid THEN timingResult
              ELSE IF ~Claims_validate(decoded.claims)
              THEN failure(Message("StructuralInvalid", -1, "none"))
              ELSE success :
                 timingResult \in validateTimingOutcomes(decoded.claims, options, clock)}
        ELSE {validate(jwt, options, clock)}

\* A validate(claims) without its try block: the exception of
\* claims.validate() leaves the call.
validateClaims_NoCatch(claims, options, clock) ==
    LET timingResult == validateTiming(claims, options, clock)
    IN  IF ~timingResult.valid THEN timingResult
        ELSE IF ~Claims_validate(claims) THEN [thrown |-> "StructuralInvalid"]
        ELSE success

\* validate(const Claims&, const ValidationOptions&)
validateClaims(claims, options, clock) ==
    LET timingResult == validateTiming(claims, options, clock)
    IN  IF ~timingResult.valid THEN timingResult
        ELSE IF ~Claims_validate(claims)
        THEN failure(Message("StructuralInvalid", -1, "none"))
        ELSE success

\* What a loop that returns at its first failing turn returns, given the
\* result of every turn had it been taken: success when no turn fails.
FirstFailure(turns) ==
    IF \A i \in DOMAIN turns : turns[i].valid THEN success
    ELSE turns[CHOOSE i \in DOMAIN turns :
                   /\ ~turns[i].valid
                   /\ \A j \in 1..(i - 1) : turns[j].valid]

\* One turn of the first loop of validateChain on the token at position i
\* (message indices are 0-based as in the program): r is what validate
\* returned for it, d what decode returned or threw.
ValidateToken(i, r, d) ==
    IF ~r.valid
    THEN [result |-> failure(Message("TokenInvalid", i - 1, r.error[1].kind)),
          claims |-> NoClaim]
    ELSE IF ~d.ok
    THEN [result |-> failure(Message("DecodeFailed", i - 1, d.err)),
          claims |-> NoClaim]
    ELSE [result |-> success, claims |-> d.claims]

\* The turns of the first loop, and what it leaves: its result and the
\* decoded claims it collected (read only when every turn passed).
ValidateTurns(turns) ==
    [result |-> FirstFailure([i \in DOMAIN turns |-> turns[i].result]),
     claimsChain |-> [i \in DOMAIN turns |-> turns[i].claims]]

\* First loop of validateChain: validate, then decode, every token.
ValidateEach(jwts, options, clock) ==
    ValidateTurns([i \in 1..Len(jwts) |->
                      ValidateToken(i, validate(jwts[i], options, clock),
                                    decode(jwts[i]))] \o << >>)

\* A second loop that forgot the issuer check and kept the hierarchy check.
ValidateLink_HierarchyOnly(i, chainResult, hierarchyResult) ==
    IF ~hierarchyResult.valid
    THEN failure(Message("HierarchyFailed", i - 1, hierarchyResult.error[1].kind))
    ELSE success

\* One turn of the second loop: the results of the two pair checks.
ValidateLink(i, chainResult, hierarchyResult) ==
    IF ~chainResult.valid
    THEN failure(Message("ChainFailed", i - 1, chainResult.error[1].kind))
    ELSE IF ~hierarchyResult.valid
    THEN failure(Message("HierarchyFailed", i - 1, hierarchyResult.error[1].kind))
    ELSE success

\* Second loop of validateChain over the decoded claims, from the second on.
ValidateLinks(claimsChain) ==
    FirstFailure([k \in 1..(Len(claimsChain) - 1) |->
                     ValidateLink(k + 1,
                                  validateIssuerChain(claimsChain[k + 1], claimsChain[k]),
                                  validateKeyHierarchy(claimsChain[k + 1], claimsChain[k]))]
                 \o << >>)

\* The two loops of validateChain, each holding the result of the first.
ValidateLoops(each, options) ==
    IF ~each.result.valid THEN each.result
    ELSE IF options.checkIssuerChain /\ Len(each.claimsChain) > 1
    THEN ValidateLinks(each.claimsChain)
    ELSE success

validateChain(jwts, options, clock) ==
    IF jwts = << >> THEN failure(Message("EmptyChain", -1, "none"))
    ELSE ValidateLoops(ValidateEach(jwts, options, clock), options)

-----------------------------------------------------------------------------
(* Bounds and inputs *)

MaxTime == 2        \* the clock runs from 1 to MaxTime
MaxKeys == 2        \* signing keys added to one claim

KeyO1 == <<79, 49>>     \* "O1"
KeyO2 == <<79, 50>>     \* "O2"
KeyA1 == <<65, 49>>     \* "A1"
KeyA2 == <<65, 50>>     \* "A2"
KeyU1 == <<85, 49>>     \* "U1"
NameN == <<110>>        \* "n"

SubjectChoices == {KeyO1, KeyA1, KeyU1, << >>}
IssuerChoices == {KeyO1, KeyA1}
SigningKeyChoices == {KeyO1, KeyO2}
IssuerAccountChoices == {KeyA1, KeyA2}
\* an expiry the clock reaches and one it never reaches
ExpiresChoices == {2, MaxTime + 2}
SeedChoices == {SeedOf(KeyO1), SeedOf(KeyA1), <<ChS>>}
\* What secureRandomBytes returns: two different 16-byte draws.
RandomChoices == { [i \in 1..JTI_BYTES |-> (17 * i) % 256],
                   [i \in 1..JTI_BYTES |-> (255 - 13 * i) % 256] }
DecoderChoices == {"operator", "account", "user", "generic"}

\* result of the last operation, one shape for all operations
Outcome(op, arg, ok, err, claims, verdict) ==
    [op |-> op, arg |-> arg, ok |-> ok, err |-> err, claims |-> claims, verdict |-> verdict]
NoOutcome == Outcome("none", "none", FALSE, "none", NoClaim, success)

RunDecoder(decoder, jwt) ==
    IF decoder = "generic" THEN decode(jwt)
    ELSE decodeClaims(decoder, jwt)

-----------------------------------------------------------------------------
(* The caller's life with one claim object: construct, set, encode, decode *)

Init ==
    /\ now = 1
    /\ claim = NoClaim
    /\ token = << >>
    /\ chain = << >>
    /\ opts = DefaultOptions
    /\ result = NoOutcome
    /\ calls = << >>
    /\ input = << >>
    /\ output = << >>
    /\ padding = 0

\* A setter changes the claim; the caller drops the token of the old state.
Changed(c) ==
    /\ claim' = c
    /\ token' = << >>
    /\ result' = NoOutcome
    /\ calls' = << >>
    /\ UNCHANGED <<now, chain, opts, input, output, padding>>

Construct ==
    /\ claim = NoClaim
    /\ \E key \in SubjectChoices :
          \/ Changed(OperatorClaims(key))
          \/ Changed(AccountClaims(key))
          \/ Changed(UserClaims(key))

SetName ==
    /\ claim # NoClaim
    /\ claim.name_ = None
    /\ Changed(setName(claim, NameN))

SetExpires ==
    /\ claim # NoClaim
    /\ \E exp \in ExpiresChoices : exp # claim.expires_ /\ Changed(setExpires(claim, exp))

SetIssuer ==
    /\ claim.variant \in {"account", "user"}
    /\ \E key \in IssuerChoices : key # claim.issuer_ /\ Changed(setIssuer(claim, key))

AddSigningKey ==
    /\ claim.variant \in {"operator", "account"}
    /\ Len(claim.signingKeys_) < MaxKeys
    /\ \E key \in SigningKeyChoices : Changed(addSigningKey(claim, key))

SetIssuerAccount ==
    /\ claim.variant = "user"
    /\ \E key \in IssuerAccountChoices :
          claim.issuerAccount_ # Some(key) /\ Changed(setIssuerAccount(claim, key))

\* An encode that stamped the issuedAt it chose into the claim.
Encode_StampsIssuedAt ==
    /\ claim # NoClaim
    /\ \E seed \in SeedChoices, random_bytes \in RandomChoices :
          \E e \in {encode(claim, seed, random_bytes, now)} :
              /\ result' = Outcome("encode", "none", e.ok, e.err, NoClaim, success)
              /\ token' = IF e.ok THEN e.jwt ELSE << >>
              /\ calls' = e.calls
              /\ claim' = IF e.ok THEN [claim EXCEPT !.issuedAt_ = now] ELSE claim
    /\ UNCHANGED <<now, chain, opts, input, output, padding>>

\* claim.encode(seed); the claim is const in encode.
Encode ==
    /\ claim # NoClaim
    /\ \E seed \in SeedChoices, random_bytes \in RandomChoices :
          \E e \in {encode(claim, seed, random_bytes, now)} :
              /\ result' = Outcome("encode", "none", e.ok, e.err, NoClaim, success)
              /\ token' = IF e.ok THEN e.jwt ELSE << >>
              /\ calls' = e.calls
    /\ UNCHANGED <<now, claim, chain, opts, input, output, padding>>

\* One of the four decode entry points on the token the caller holds.
Decode ==
    /\ token # << >>
    /\ \E decoder \in DecoderChoices :
          \E d \in {RunDecoder(decoder, token)} :
              result' = Outcome("decode", decoder, d.ok, d.err, d.claims, success)
    /\ calls' = << >>
    /\ UNCHANGED <<now, claim, token, chain, opts, input, output, padding>>

\* jwt::verify on the token the caller holds.
VerifyToken ==
    /\ token # << >>
    /\ result' = Outcome("verify", "none", verify(token), "none", NoClaim, success)
    /\ calls' = << >>
    /\ UNCHANGED <<now, claim, token, chain, opts, input, output, padding>>

Tick ==
    /\ now < MaxTime
    /\ now' = now + 1
    /\ UNCHANGED <<claim, token, chain, opts, result, calls, input, output, padding>>

Next ==
    \/ Construct
    \/ SetName
    \/ SetExpires
    \/ SetIssuer
    \/ AddSigningKey
    \/ SetIssuerAccount
    \/ Encode
    \/ Decode
    \/ VerifyToken
    \/ Tick

Spec == Init /\ [][Next]_vars

-----------------------------------------------------------------------------
(* Claims about the caller's life with one claim object *)

\* In Spec a held token is always one that encode returned for the claim in
\* its present state, so a decode outcome is the round trip of that claim.
RoundTripDecoded == result.op = "decode" /\ result.arg = claim.variant

\* C1: token round trip.  For every claim encode accepts, the matching
\* variant decoder succeeds on the encoded token and returns the same
\* subject, issuer, name, expires, signing keys (as a sequence) and
\* issuerAccount, with issuedAt > 0.
C1_TokenRoundTrip ==
    RoundTripDecoded =>
        /\ result.ok
        /\ result.claims.subject_ = claim.subject_
        /\ result.claims.issuer_ = claim.issuer_
        /\ result.claims.name_ = claim.name_
        /\ result.claims.expires_ = claim.expires_
        /\ result.claims.signingKeys_ = claim.signingKeys_
        /\ result.claims.issuerAccount_ = claim.issuerAccount_
        /\ result.claims.issuedAt_ > 0

-----------------------------------------------------------------------------
(* Tampering with the signature segment of a valid token *)

\* Every character of the alphabet, the padding character, the separator and
\* a character outside the alphabet ('!').
TamperCharacters == {alphabet[i] : i \in 1..64} \cup {Pad, Dot, 33}

\* The positions of the signature segment: those after the second dot.
SignaturePositions(jwt) == (Len(jwt) - Len(parseJwt(jwt).signature_b64) + 1)..Len(jwt)

\* The caller holds a token that encode returned for a self-signed operator;
\* input keeps the token as it was issued.
InitTamper ==
    /\ now = 1
    /\ claim = OperatorClaims(KeyO1)
    /\ \E random_bytes \in RandomChoices :
          token = encode(claim, SeedOf(KeyO1), random_bytes, now).jwt
    /\ input = token
    /\ chain = << >>
    /\ opts = DefaultOptions
    /\ result = NoOutcome
    /\ calls = << >>
    /\ output = << >>
    /\ padding = 0

\* One character of the signature segment of the issued token is replaced.
TamperSignature ==
    /\ token = input
    /\ \E pos \in SignaturePositions(token), ch \in TamperCharacters :
          /\ ch # token[pos]
          /\ token' = [token EXCEPT ![pos] = ch]
    /\ result' = NoOutcome
    /\ UNCHANGED <<now, claim, chain, opts, calls, input, output, padding>>

NextTamper ==
    \/ TamperSignature
    \/ VerifyToken

SpecTamper == InitTamper /\ [][NextTamper]_vars

\* C2: tamper sensitivity.  Replacing any one character of the signature
\* segment of a token that verifies gives a token that does not verify.
C2_TamperSensitivity ==
    (result.op = "verify" /\ token # input /\ verify(input)) => ~result.ok

-----------------------------------------------------------------------------
(* What decoding says about the signature *)

\* The signature of a token checked against the public key named by a claim's
\* issuer, as verify checks it.
SignedByIssuer(jwt, claims) ==
    verifySignature(claims.issuer_, parseJwt(jwt).signing_input,
                    parseJwt(jwt).signature_b64) = "true"

\* C3: the decode functions verify the signature: decode (any of the four
\* decoders) returns claims only for a token whose signature verifies against
\* the public key named in its iss.
C3_DecodeVerifiesSignature ==
    (result.op = "decode" /\ result.ok) => SignedByIssuer(token, result.claims)

-----------------------------------------------------------------------------
(* Token strings from an untrusted peer *)

\* A peer builds a token the way encode does, from any field values, and may
\* break one thing in the header or the payload and sign as it likes.
PeerOperator == [addSigningKey(OperatorClaims(KeyO1), KeyO2) EXCEPT !.issuedAt_ = 1]
PeerForgedOperator ==
    [OperatorClaims(KeyO1) EXCEPT !.issuer_ = KeyO2, !.issuedAt_ = 1, !.expires_ = 2]
PeerAccount ==
    [setIssuer(AccountClaims(KeyA1), KeyO1) EXCEPT !.issuedAt_ = 1, !.expires_ = 2]
PeerUser ==
    [setIssuerAccount(setIssuer(UserClaims(KeyU1), KeyA1), KeyA1)
        EXCEPT !.issuedAt_ = MaxTime + 1]
PeerSelfIssuedAccount == [setIssuer(AccountClaims(KeyA1), KeyA1) EXCEPT !.issuedAt_ = 1]
PeerContents ==
    {PeerOperator, PeerForgedOperator, PeerAccount, PeerUser, PeerSelfIssuedAccount}

PayloadFaults ==
    {"no_iss", "iss_int", "no_sub", "sub_int", "no_iat", "iat_str", "exp_str",
     "name_int", "no_nats", "nats_int", "no_type", "type_int", "type_bogus",
     "type_user", "no_version", "version_1", "keys_int", "payload_array",
     "iat_float",
     "payload_garbage", "payload_badchar", "payload_badlen", "payload_empty"}
HeaderFaults ==
    {"no_alg", "alg_other", "alg_int", "header_garbage", "header_badchar",
     "header_badlen", "header_empty"}
SignatureKinds ==
    {"issuer", "other", "short", "long", "badchar", "empty", "missing", "extra"}

Drop(obj, key) == JObj([k \in DOMAIN obj.v \ {key} |-> obj.v[k]])
Put(obj, key, val) == JObj((key :> val) @@ obj.v)
PutNats(payload, key, val) == Put(payload, "nats", Put(payload.v["nats"], key, val))
DropNats(payload, key) == Put(payload, "nats", Drop(payload.v["nats"], key))

FaultyPayload(doc, fault) ==
    CASE fault = "no_iss" -> Drop(doc, "iss")
      [] fault = "iss_int" -> Put(doc, "iss", JInt(7))
      [] fault = "no_sub" -> Drop(doc, "sub")
      [] fault = "sub_int" -> Put(doc, "sub", JInt(7))
      [] fault = "no_iat" -> Drop(doc, "iat")
      [] fault = "iat_str" -> Put(doc, "iat", JStr(NameN))
      [] fault = "iat_float" -> Put(doc, "iat", JFloat(1, 5))
      [] fault = "exp_str" -> Put(doc, "exp", JStr(NameN))
      [] fault = "name_int" -> Put(doc, "name", JInt(7))
      [] fault = "no_nats" -> Drop(doc, "nats")
      [] fault = "nats_int" -> Put(doc, "nats", JInt(7))
      [] fault = "no_type" -> DropNats(doc, "type")
      [] fault = "type_int" -> PutNats(doc, "type", JInt(7))
      [] fault = "type_bogus" -> PutNats(doc, "type", JStr(NameN))
      [] fault = "type_user" -> PutNats(doc, "type", JStr(STR_USER))
      [] fault = "no_version" -> DropNats(doc, "version")
      [] fault = "version_1" -> PutNats(doc, "version", JInt(JWT_VERSION - 1))
      [] fault = "keys_int" -> PutNats(doc, "signing_keys", JArr(<<JInt(7)>>))
      [] fault = "payload_array" -> JArr(<<doc>>)
      [] OTHER -> doc

FaultyHeader(fault) ==
    CASE fault = "no_alg" -> JObj("typ" :> JStr(JWT_TYPE))
      [] fault = "alg_other" -> JObj(("typ" :> JStr(JWT_TYPE)) @@ ("alg" :> JStr(NameN)))
      [] fault = "alg_int" -> JObj(("typ" :> JStr(JWT_TYPE)) @@ ("alg" :> JInt(7)))
      [] OTHER -> JObj(("typ" :> JStr(JWT_TYPE)) @@ ("alg" :> JStr(JWT_ALGORITHM)))

\* A segment for a JSON text, or a broken one: text that is not JSON, a
\* character outside the alphabet, a length no encoding has, nothing at all.
FaultySegment(text, fault, garbage, badchar, badlen, empty) ==
    CASE fault = garbage -> base64url_encode(<<123>>)
      [] fault = badchar -> [base64url_encode(text) EXCEPT ![1] = 33]
      [] fault = badlen -> SubSeq(base64url_encode(text), 1, 5)
      [] fault = empty -> << >>
      [] OTHER -> base64url_encode(text)

PeerJti == generateJti([i \in 1..JTI_BYTES |-> (17 * i) % 256])

Craft(c, fault, signature) ==
    LET header_b64 == FaultySegment(dump(FaultyHeader(fault)), fault, "header_garbage",
                                    "header_badchar", "header_badlen", "header_empty")
        payload_b64 ==
            FaultySegment(dump(FaultyPayload(BuildPayload(c, PeerJti, c.issuedAt_), fault)),
                          fault, "payload_garbage", "payload_badchar", "payload_badlen",
                          "payload_empty")
        signing_input == header_b64 \o <<Dot>> \o payload_b64
        good == Sign(c.issuer_, signing_input)
        signature_b64 ==
            CASE signature = "other" -> base64url_encode(Sign(KeyA2, signing_input))
              [] signature = "short" -> base64url_encode(SubSeq(good, 1, SIGNATURE_SIZE - 1))
              [] signature = "long" -> base64url_encode(good \o <<0>>)
              [] signature = "badchar" -> [base64url_encode(good) EXCEPT ![1] = 33]
              [] signature = "empty" -> << >>
              [] OTHER -> base64url_encode(good)
    IN  CASE signature = "missing" -> signing_input
          [] signature = "extra" -> signing_input \o <<Dot>> \o signature_b64 \o <<Dot, 65>>
          [] OTHER -> signing_input \o <<Dot>> \o signature_b64

\* Every content with every signature, and one content with every fault,
\* properly signed and signed by another key.
PeerTokens ==
    {Craft(c, "none", s) : c \in PeerContents, s \in SignatureKinds}
    \cup {Craft(PeerAccount, f, s) : f \in PayloadFaults \cup HeaderFaults,
                                     s \in {"issuer", "other"}}

\* The three presets and one that trusts the signature but checks the rest,
\* with a second of clock skew.
OptionChoices ==
    {DefaultOptions, strict, permissive, ValidationOptions(TRUE, TRUE, 1, FALSE, TRUE)}

InitUntrusted ==
    /\ now \in 1..(MaxTime + 2)
    /\ token \in PeerTokens
    /\ claim = NoClaim
    /\ chain = << >>
    /\ opts = DefaultOptions
    /\ result = NoOutcome
    /\ calls = << >>
    /\ input = << >>
    /\ output = << >>
    /\ padding = 0

Validate ==
    /\ token # << >>
    /\ \E options \in OptionChoices :
          \E v \in {validate(token, options, now)} :
              /\ opts' = options
              /\ result' = Outcome("validate", "none", TRUE, "none", NoClaim, v)
    /\ calls' = << >>
    /\ UNCHANGED <<now, claim, token, chain, input, output, padding>>

\* One call on the received string.
Fresh == result = NoOutcome
NextUntrusted ==
    \/ Fresh /\ Decode
    \/ Fresh /\ VerifyToken
    \/ Fresh /\ Validate

SpecUntrusted == InitUntrusted /\ [][NextUntrusted]_vars

-----------------------------------------------------------------------------
(* Claims about calls on an untrusted token string *)

\* C7: every OperatorClaims instance is self-signed, issuer = subject: the
\* caller's own object after construction and any setters and encode, and
\* every instance a decoder returns.
C7_OperatorSelfSigned ==
    /\ claim.variant = "operator" => claim.issuer_ = claim.subject_
    /\ (result.op = "decode" /\ result.ok /\ result.claims.variant = "operator")
            => result.claims.issuer_ = result.claims.subject_

\* The positions of the separator in a string, and the string cut at them.
DotPositions(jwt) == {k \in 1..Len(jwt) : jwt[k] = Dot}
FirstDot(jwt) == CHOOSE k \in DotPositions(jwt) : \A j \in DotPositions(jwt) : k <= j
LastDot(jwt) == CHOOSE k \in DotPositions(jwt) : \A j \in DotPositions(jwt) : j <= k
ThreeSegments(jwt) ==
    /\ Cardinality(DotPositions(jwt)) = 2
    /\ FirstDot(jwt) > 1
    /\ LastDot(jwt) > FirstDot(jwt) + 1
    /\ LastDot(jwt) < Len(jwt)

\* The conditions under which verify is said to return true, read off the
\* string itself.
VerifyConditions(jwt) ==
    /\ ThreeSegments(jwt)
    /\ LET payload_bytes == base64url_decode(SubSeq(jwt, FirstDot(jwt) + 1, LastDot(jwt) - 1))
           signature_bytes == base64url_decode(SubSeq(jwt, LastDot(jwt) + 1, Len(jwt)))
           payload == parse(payload_bytes.bytes)
       IN  /\ payload_bytes.ok
           /\ payload.ok
           /\ Contains(payload.val, "iss")
           /\ IsString(payload.val.v["iss"])
           /\ signature_bytes.ok
           /\ Len(signature_bytes.bytes) = SIGNATURE_SIZE
           /\ ValidPublicKey(payload.val.v["iss"].v)
           /\ Verify(payload.val.v["iss"].v, SubSeq(jwt, 1, LastDot(jwt) - 1),
                     signature_bytes.bytes)

\* C9: verify never throws: it returns true exactly when the token splits
\* into three non-empty segments, the payload decodes and parses with a string
\* iss, the signature decodes to exactly 64 bytes and the verifier accepts
\* them under iss's key over header_b64 "." payload_b64; it returns false in
\* every other case, an exception raised by a step included.
C9_VerifyTotal ==
    result.op = "verify" =>
        /\ result.ok \in BOOLEAN
        /\ result.ok <=> VerifyConditions(token)
        /\ verifyTry(token) = "throw" => ~result.ok

\* verify has returned true on a token whose header is not even JSON.
C9_Witness ==
    /\ result.op = "verify"
    /\ result.ok
    /\ ~SegmentJson(parseJwt(token).header_b64).ok

\* What is wrong with a token, each read off the decoded claims and the
\* options without running the checks in any order.
SignatureBad(jwt) == ~VerifyConditions(jwt)
ExpiredAt(c, options, clock) ==
    c.expires_ > 0 /\ clock > c.expires_ + options.clockSkewSeconds
NotYetValidAt(c, options, clock) ==
    c.issuedAt_ > 0 /\ clock < c.issuedAt_ - options.clockSkewSeconds
VerdictKind(v) == IF v.valid THEN "none" ELSE v.error[1].kind

\* C6: validate checks in the order decode, signature (when checkSignature),
\* timing, structure and returns the first failure: an undecodable token
\* reports a decode failure whatever else is wrong; a decodable token with a
\* bad signature and a passed exp reports the signature failure when
\* checkSignature is on and the expiry failure when it is off; success iff no
\* enabled check fails.
C6_ValidateOrder ==
    result.op = "validate" =>
        LET decoded == decode(token)
            c == decoded.claims
            kind == VerdictKind(result.verdict)
        IN  /\ ~decoded.ok => kind = "DecodeFailed"
            /\ (decoded.ok /\ SignatureBad(token) /\ ExpiredAt(c, opts, now)) =>
                    /\ opts.checkSignature => kind = "SignatureInvalid"
                    /\ (~opts.checkSignature /\ opts.checkExpiration
                        /\ ~(opts.checkNotBefore /\ NotYetValidAt(c, opts, now)))
                            => kind = "Expired"
            /\ result.verdict.valid <=>
                    /\ decoded.ok
                    /\ opts.checkSignature => ~SignatureBad(token)
                    /\ opts.checkNotBefore => ~NotYetValidAt(c, opts, now)
                    /\ opts.checkExpiration => ~ExpiredAt(c, opts, now)
                    /\ Claims_validate(c)

\* validate has reported the expiry of a token whose signature is bad too,
\* the signature check being off.
C6_Witness ==
    /\ result.op = "validate"
    /\ decode(token).ok
    /\ SignatureBad(token)
    /\ ExpiredAt(decode(token).claims, opts, now)
    /\ ~opts.checkSignature
    /\ VerdictKind(result.verdict) = "Expired"

-----------------------------------------------------------------------------
(* Validating a chain of received tokens, or a claims object *)

MaxChain == 3       \* tokens in the vector handed to validateChain

LinkAccount == [setIssuer(AccountClaims(KeyA1), KeyO1) EXCEPT !.issuedAt_ = 1]
LinkUser ==
    [setIssuerAccount(setIssuer(UserClaims(KeyU1), KeyA1), KeyA1) EXCEPT !.issuedAt_ = 1]
\* an account issued by O2, the signing key the operator O1 lists
LinkAccountByKey == [setIssuer(AccountClaims(KeyA2), KeyO2) EXCEPT !.issuedAt_ = 1]
\* an operator token for O2 that names O1 as its issuer and expires just
\* before the validating clock, within the skew
LinkForeignOperator ==
    [OperatorClaims(KeyO2) EXCEPT !.issuer_ = KeyO1, !.issuedAt_ = 1, !.expires_ = MaxTime]

TokenO == Craft(PeerOperator, "none", "issuer")
TokenA == Craft(LinkAccount, "none", "issuer")
TokenU == Craft(LinkUser, "none", "issuer")
TokenUWrongSeed == Craft(LinkUser, "none", "other")
TokenAByKey == Craft(LinkAccountByKey, "none", "issuer")
TokenForeignO == Craft(LinkForeignOperator, "none", "issuer")
\* every token above: its content and whose seed signed it
ChainLinks ==
    {<<PeerOperator, "issuer">>, <<LinkAccount, "issuer">>, <<LinkUser, "issuer">>,
     <<LinkUser, "other">>, <<LinkAccountByKey, "issuer">>,
     <<LinkForeignOperator, "issuer">>}
ChainPool == {Craft(l[1], "none", l[2]) : l \in ChainLinks}

\* Claims objects a caller may hand to validate(claims, opts): decoded ones
\* and ones straight from a constructor.
ClaimChoices ==
    {PeerOperator, PeerAccount, PeerUser, AccountClaims(KeyA1), UserClaims(KeyO1)}

InitChain ==
    /\ now = MaxTime + 1
    /\ claim = NoClaim
    /\ token = << >>
    /\ chain = << >>
    /\ opts = DefaultOptions
    /\ result = NoOutcome
    /\ calls = << >>
    /\ input = << >>
    /\ output = << >>
    /\ padding = 0

\* The caller holds one thing to validate: a vector of tokens received one
\* after the other, a single token, or a claims object.
Receive ==
    /\ Fresh
    /\ claim = NoClaim
    /\ token = << >>
    /\ Len(chain) < MaxChain
    /\ \E t \in ChainPool : chain' = Append(chain, t)
    /\ UNCHANGED <<now, claim, token, opts, result, calls, input, output, padding>>

ReceiveOne ==
    /\ Fresh
    /\ claim = NoClaim
    /\ token = << >>
    /\ chain = << >>
    /\ \E t \in PeerTokens : token' = t
    /\ UNCHANGED <<now, claim, chain, opts, result, calls, input, output, padding>>

Build ==
    /\ Fresh
    /\ claim = NoClaim
    /\ token = << >>
    /\ chain = << >>
    /\ \E c \in ClaimChoices : claim' = c
    /\ UNCHANGED <<now, token, chain, opts, result, calls, input, output, padding>>

ValidateChain ==
    /\ Fresh
    /\ claim = NoClaim
    /\ token = << >>
    /\ \E options \in OptionChoices :
          \E v \in {validateChain(chain, options, now)} :
              /\ opts' = options
              /\ result' = Outcome("validateChain", "none", TRUE, "none", NoClaim, v)
    /\ calls' = << >>
    /\ UNCHANGED <<now, claim, token, chain, input, output, padding>>

ValidateClaims ==
    /\ Fresh
    /\ claim # NoClaim
    /\ \E options \in OptionChoices :
          \E v \in {validateClaims(claim, options, now)} :
              /\ opts' = options
              /\ result' = Outcome("validateClaims", "none", TRUE, "none", NoClaim, v)
    /\ calls' = << >>
    /\ UNCHANGED <<now, claim, token, chain, input, output, padding>>

NextChain ==
    \/ Receive
    \/ ReceiveOne
    \/ Build
    \/ ValidateChain
    \/ ValidateClaims
    \/ Fresh /\ Validate

SpecChain == InitChain /\ [][NextChain]_vars

-----------------------------------------------------------------------------
(* Claims about validateChain, validate(claims) and their results *)

\* What the claim says of a chain, token by token and pair by pair (positions
\* are 1-based here, the indices a message names 0-based).
TokenPasses(i) == validate(chain[i], opts, now).valid
PoolClaims == [t \in ChainPool |-> decode(t).claims]
PairPasses(i) ==
    /\ validateIssuerChain(PoolClaims[chain[i]], PoolClaims[chain[i - 1]]).valid
    /\ validateKeyHierarchy(PoolClaims[chain[i]], PoolClaims[chain[i - 1]]).valid
FailingTokens == {i \in 1..Len(chain) : ~TokenPasses(i)}
FailingPairs ==
    IF opts.checkIssuerChain /\ Len(chain) >= 2
    THEN {i \in 2..Len(chain) : ~PairPasses(i)}
    ELSE {}

\* C5: validateChain fails with an empty-chain result on an empty vector;
\* otherwise it succeeds iff every token passes validate and, with
\* checkIssuerChain set and two tokens or more, every adjacent pair passes
\* validateIssuerChain and validateKeyHierarchy; a failure names the index of
\* the failing token or pair.  [O, A, U] succeeds under strict options and
\* fails at index 2 when U is signed by a seed that does not match its iss.
C5_ChainValidation ==
    result.op = "validateChain" =>
        LET v == result.verdict
        IN  /\ chain = << >> => VerdictKind(v) = "EmptyChain"
            /\ chain # << >> =>
                    \A failing \in {IF FailingTokens # {} THEN FailingTokens ELSE FailingPairs} :
                        /\ v.valid <=> failing = {}
                        /\ ~v.valid => v.error[1].index + 1 \in failing
            /\ (chain = <<TokenO, TokenA, TokenU>> /\ opts = strict) => v.valid
            /\ (chain = <<TokenO, TokenA, TokenUWrongSeed>> /\ opts = strict) =>
                    ~v.valid /\ v.error[1].index = 2

\* validateChain has rejected [O, A, U'] under strict options, U' being the
\* user token signed by the wrong seed, naming index 2.
C5_Witness ==
    /\ result.op = "validateChain"
    /\ chain = <<TokenO, TokenA, TokenUWrongSeed>>
    /\ opts = strict
    /\ ~result.verdict.valid
    /\ result.verdict.error[1].index = 2

\* The child's issuer is the parent's subject or one of its signing keys.
DelegatedBy(child, parent) ==
    \/ child.issuer_ = parent.subject_
    \/ \E k \in 1..Len(parent.signingKeys_) : parent.signingKeys_[k] = child.issuer_

\* C8: a child issued by one of its parent's signing keys belongs to a valid
\* chain: with checkIssuerChain, chain validation accepts a pair whose child
\* issuer is listed in the parent's signing_keys, and rejects a child whose
\* issuer is neither the parent's subject nor one of its signing keys.
C8_SigningKeyChain ==
    (result.op = "validateChain" /\ opts.checkIssuerChain /\ Len(chain) >= 2
     /\ FailingTokens = {}) =>
        LET claims == [i \in 1..Len(chain) |-> PoolClaims[chain[i]]]
            pairs == 2..Len(chain)
        IN  /\ (\A i \in pairs : /\ DelegatedBy(claims[i], claims[i - 1])
                                 /\ validateKeyHierarchy(claims[i], claims[i - 1]).valid)
                    => result.verdict.valid
            /\ (\E i \in pairs : ~DelegatedBy(claims[i], claims[i - 1]))
                    => ~result.verdict.valid

\* C10: validate(token), validate(claims) and validateChain never raise: a
\* failure of any kind is returned as a ValidationResult with valid = false
\* and a message, a success has valid = true and no message.
C10_NeverRaises ==
    result.op \in {"validate", "validateClaims", "validateChain"} =>
        LET v == result.verdict
        IN  /\ DOMAIN v = {"valid", "error"}
            /\ v.valid \in BOOLEAN
            /\ v.valid => v.error = None
            /\ ~v.valid => v.error # None

\* validate(claims) has returned a failure with a message for a claims
\* object whose own validate() throws.
C10_Witness ==
    /\ result.op = "validateClaims"
    /\ ~Claims_validate(claim)
    /\ ~result.verdict.valid
    /\ result.verdict.error # None
    /\ result.verdict.error[1].kind = "StructuralInvalid"

-----------------------------------------------------------------------------
(* Very long token strings *)

\* A string of more than MAX_JWT_SIZE characters is held as a well-formed
\* token followed by `padding` further characters 'A': they lengthen the
\* signature segment and add no separator.
TokenSize == Len(token) + padding

\* Bytes base64url_decode returns for a text of that many alphabet characters
\* (it has thrown when one character is left over).
DecodedLength(length) ==
    3 * (length \div 4) + (CASE length % 4 = 2 -> 1 [] length % 4 = 3 -> 2 [] OTHER -> 0)

\* The decoders read parts.header_b64 and parts.payload_b64 only: on a token
\* with a longer signature segment they do what they do on the token.
decodePadded(jwt, n) == decode(jwt)

\* verify on the padded token: the same parts but for the signature text,
\* which verifySignature refuses when it has one character left over or does
\* not decode to SIGNATURE_SIZE bytes.
verifyPadded(jwt, n) ==
    LET length == Len(parseJwt(jwt).signature_b64) + n
    IN  IF n = 0 THEN verify(jwt)
        ELSE IF verifyTry(jwt) = "throw" THEN FALSE
        ELSE IF length % 4 = 1 THEN FALSE
        ELSE IF DecodedLength(length) # SIGNATURE_SIZE THEN FALSE
        ELSE verify(jwt)

validatePadded(jwt, n, options, clock) ==
    validateSteps(decodePadded(jwt, n), verifyPadded(jwt, n), options, clock)

\* Sizes around the limit: an ordinary token, one of exactly MAX_JWT_SIZE
\* characters, one character more, and far more.
InitSize ==
    /\ now \in 1..(MaxTime + 1)
    /\ token \in ChainPool
    /\ padding \in {0, MAX_JWT_SIZE - Len(token), MAX_JWT_SIZE - Len(token) + 1,
                    MAX_JWT_SIZE}
    /\ claim = NoClaim
    /\ chain = << >>
    /\ opts = DefaultOptions
    /\ result = NoOutcome
    /\ calls = << >>
    /\ input = << >>
    /\ output = << >>

DecodeLong ==
    /\ Fresh
    /\ \E d \in {decodePadded(token, padding)} :
          result' = Outcome("decode", "generic", d.ok, d.err, d.claims, success)
    /\ UNCHANGED <<now, claim, token, chain, opts, calls, input, output, padding>>

VerifyLong ==
    /\ Fresh
    /\ result' = Outcome("verify", "none", verifyPadded(token, padding), "none",
                         NoClaim, success)
    /\ UNCHANGED <<now, claim, token, chain, opts, calls, input, output, padding>>

ValidateLong ==
    /\ Fresh
    /\ \E options \in OptionChoices :
          \E v \in {validatePadded(token, padding, options, now)} :
              /\ opts' = options
              /\ result' = Outcome("validate", "none", TRUE, "none", NoClaim, v)
    /\ UNCHANGED <<now, claim, token, chain, calls, input, output, padding>>

NextSize == DecodeLong \/ VerifyLong \/ ValidateLong

SpecSize == InitSize /\ [][NextSize]_vars

\* C4: a token longer than MAX_JWT_SIZE (10 MiB) is rejected by decode, verify
\* and validate.
C4_MaxTokenSize ==
    TokenSize > MAX_JWT_SIZE =>
        /\ result.op = "decode" => ~result.ok
        /\ result.op = "verify" => ~result.ok
        /\ result.op = "validate" => ~result.verdict.valid

-----------------------------------------------------------------------------
(* Structural validation on encode and on decode *)

\* Claim objects a caller can hold: built by a constructor and setters
\* (issuedAt unset), or returned by a decoder (issuedAt set, and valid when
\* it was returned) and changed by setIssuer / setExpires afterwards.  An
\* operator's issuer is its subject unless a decoder read another one.
IssuedAtChoices == {0, MaxTime}
ExpiresSpace == {-1, 0, MaxTime, MaxTime + 1}
IssuerSpace == {<< >>, KeyO1, KeyA1}
VariantLetter(variant) ==
    IF variant = "operator" THEN ChO ELSE IF variant = "account" THEN ChA ELSE ChU
Holdable(c) ==
    /\ c.variant = "operator" =>
            (IF c.issuedAt_ = 0 THEN c.issuer_ = c.subject_ ELSE c.issuer_ # << >>)
    /\ c.issuedAt_ > 0 => c.subject_ # << >> /\ c.subject_[1] = VariantLetter(c.variant)
ClaimSpace ==
    {c \in {[NewImpl(variant, subject, issuer)
                EXCEPT !.issuedAt_ = iat, !.expires_ = exp] :
                variant \in {"operator", "account", "user"},
                subject \in SubjectChoices, issuer \in IssuerSpace,
                iat \in IssuedAtChoices, exp \in ExpiresSpace} :
        Holdable(c)}

\* What a peer sends who serialises the fields of such an object itself.
Serialised(c) == Craft(c, "none", "other")

InitStructure ==
    /\ now \in 1..MaxTime
    /\ claim \in ClaimSpace
    /\ token = << >>
    /\ chain = << >>
    /\ opts = DefaultOptions
    /\ result = NoOutcome
    /\ calls = << >>
    /\ input = << >>
    /\ output = << >>
    /\ padding = 0

Serialise ==
    /\ Fresh
    /\ token = << >>
    /\ token' = Serialised(claim)
    /\ UNCHANGED <<now, claim, chain, opts, result, calls, input, output, padding>>

NextStructure ==
    \/ Fresh /\ token = << >> /\ Encode
    \/ Serialise
    \/ Fresh /\ Decode

SpecStructure == InitStructure /\ [][NextStructure]_vars

\* The rule of the three validate() methods, in the words of the claim.
StructuralRule(c) ==
    /\ c.subject_ # << >>
    /\ c.issuer_ # << >>
    /\ c.subject_[1] = VariantLetter(c.variant)
    /\ c.variant = "account" => c.issuer_[1] = ChO
    /\ c.variant = "user" => c.issuer_[1] = ChA
    /\ ~(c.issuedAt_ > 0 /\ c.expires_ > 0 /\ c.expires_ <= c.issuedAt_)

\* C11: encode validates the claim before anything else: for a claim that
\* breaks the structural rule it fails with an invalid-argument error,
\* returns no token and has made no call to the key provider.
C11_EncodeValidatesFirst ==
    (result.op = "encode" /\ ~StructuralRule(claim)) =>
        /\ ~result.ok
        /\ result.err = "StructuralInvalid"
        /\ token = << >>
        /\ calls = << >>

\* encode has refused a user claim issued by an operator key, without a
\* call to the key provider.
C11_Witness ==
    /\ result.op = "encode"
    /\ claim.variant = "user"
    /\ claim.subject_ = KeyU1
    /\ claim.issuer_ = KeyO1
    /\ ~result.ok
    /\ calls = << >>

\* C12: structural validation succeeds iff subject and issuer are non-empty,
\* the subject begins with the variant's letter, an account's issuer with
\* 'O' and a user's with 'A', and not (issuedAt > 0, expires > 0 and
\* expires <= issuedAt); encode and the decoders apply the same rule.
C12_StructuralRule ==
    /\ result.op = "encode" => (result.err = "StructuralInvalid" <=> ~StructuralRule(claim))
    /\ (result.op = "decode" /\ result.arg = claim.variant /\ token = Serialised(claim)) =>
            /\ result.ok <=> StructuralRule(claim)
            /\ ~result.ok => result.err = "StructuralInvalid"

\* A decoder has refused a user token whose issuer is an operator key, and
\* for nothing but the structural rule.
C12_Witness ==
    /\ result.op = "decode"
    /\ result.arg = "user"
    /\ claim.variant = "user"
    /\ claim.subject_ = KeyU1
    /\ claim.issuer_ = KeyO1
    /\ token = Serialised(claim)
    /\ result.err = "StructuralInvalid"

-----------------------------------------------------------------------------
(* Claims about the decoders, on the tokens of SpecUntrusted *)

\* The header and payload documents of a token, read segment by segment.
TokenHeader(jwt) == SegmentJson(parseJwt(jwt).header_b64)
TokenPayload(jwt) == SegmentJson(parseJwt(jwt).payload_b64)

\* What the claim requires of a token a per-variant decoder accepts.
DecoderConditions(jwt, variant) ==
    LET header == TokenHeader(jwt)
        payload == TokenPayload(jwt)
        nats == payload.val.v["nats"]
    IN  /\ ThreeSegments(jwt)
        /\ header.ok
        /\ Contains(header.val, "alg")
        /\ header.val.v["alg"] = JStr(JWT_ALGORITHM)
        /\ payload.ok
        /\ Contains(payload.val, "nats")
        /\ Contains(nats, "type")
        /\ nats.v["type"] = JStr(TypeStringOf(variant))
        /\ Contains(nats, "version")
        /\ EqualsInt(nats.v["version"], JWT_VERSION)
        /\ Contains(payload.val, "sub") /\ IsString(payload.val.v["sub"])
        /\ Contains(payload.val, "iss") /\ IsString(payload.val.v["iss"])
        /\ Contains(payload.val, "iat") /\ IsInteger(payload.val.v["iat"])

\* C13: a per-variant decoder succeeds only if the token splits, the
\* header's alg is "ed25519-nkey", the payload has a nats object of that
\* variant's type and of version 2, sub and iss are strings, iat is an
\* integer and the reconstructed claim passes structural validation; a
\* failing call returns an error and no claim object.
C13_DecoderConditions ==
    (result.op = "decode" /\ result.arg \in {"operator", "account", "user"}) =>
        /\ result.ok => /\ DecoderConditions(token, result.arg)
                        /\ result.claims.variant = result.arg
                        /\ StructuralRule(result.claims)
        /\ ~result.ok => result.err # "none" /\ result.claims = NoClaim

\* The variant a payload names in nats.type, "none" when the payload has no
\* nats object, no type, or a type that is not one of the three strings.
NamedVariant(jwt) ==
    LET payload == TokenPayload(jwt)
        nats == payload.val.v["nats"]
        named == {v \in {"operator", "account", "user"} :
                     nats.v["type"] = JStr(TypeStringOf(v))}
    IN  IF /\ ThreeSegments(jwt)
           /\ payload.ok
           /\ Contains(payload.val, "nats")
           /\ Contains(nats, "type")
           /\ named # {}
        THEN CHOOSE v \in named : TRUE
        ELSE "none"

\* C14: generic decode is the per-variant decoder its payload's nats.type
\* selects: it succeeds iff the type is "operator", "account" or "user" and
\* that decoder succeeds on the token, and returns the same claim; without
\* a nats object or a type, or with another type, it fails.
C14_GenericDecode ==
    (result.op = "decode" /\ result.arg = "generic") =>
        \A variant \in {NamedVariant(token)} :
            IF variant = "none" THEN ~result.ok /\ result.claims = NoClaim
            ELSE \A d \in {decodeClaims(variant, token)} :
                    /\ result.ok <=> d.ok
                    /\ result.claims = d.claims
                    /\ result.ok => result.claims.variant = variant

\* Generic decode has returned the user claim decodeUserClaims returns.
C14_Witness ==
    /\ result.op = "decode"
    /\ result.arg = "generic"
    /\ result.ok
    /\ result.claims.variant = "user"
    /\ result.claims = decodeUserClaims(token).claims

-----------------------------------------------------------------------------
(* The validation rules on claim objects: timing, issuer chain, hierarchy *)

\* Keys of every prefix, a prefix that names no claim type among them.
KeySpace == {<< >>, KeyO1, KeyO2, KeyA1, KeyU1, <<ChS, 1>>}

\* Claims for the timing rules: issuedAt unset or set by a decoder, expires
\* unset, negative, around the clock, or the largest value there is.
TimedClaims ==
    {[setIssuer(AccountClaims(KeyA1), KeyO1) EXCEPT !.issuedAt_ = iat, !.expires_ = exp] :
        iat \in {0, 2, MaxTime + 2},
        exp \in {-1, 0, 1, 2, MaxTime + 1, INT64_MAX}}

\* Children and parents for the pair rules: any subject and issuer, with
\* and without the fields the rules do not read.
ChildClaims ==
    {[setIssuer(AccountClaims(subject), issuer) EXCEPT !.expires_ = exp] :
        subject \in KeySpace, issuer \in KeySpace, exp \in {0, 2}}
ParentClaims ==
    {[setIssuer(AccountClaims(subject), issuer) EXCEPT !.signingKeys_ = keys] :
        subject \in KeySpace, issuer \in {<< >>, KeyO1}, keys \in {<< >>, <<KeyO2>>}}

RuleOptions ==
    {ValidationOptions(exp, nbf, skew, TRUE, FALSE) :
        exp \in BOOLEAN, nbf \in BOOLEAN, skew \in {0, 1}}

\* input is the parent of a pair, or empty when one claim is under test.
InitRules ==
    /\ \/ /\ claim \in TimedClaims
          /\ input = << >>
          /\ now \in 1..(MaxTime + 2)
          /\ opts \in RuleOptions
       \/ /\ claim \in ChildClaims
          /\ input \in {<<parent>> : parent \in ParentClaims}
          /\ now = 1
          /\ opts = DefaultOptions
    /\ token = << >>
    /\ chain = << >>
    /\ result = NoOutcome
    /\ calls = << >>
    /\ output = << >>
    /\ padding = 0

Checked(op, v) ==
    /\ result' = Outcome(op, "none", TRUE, "none", NoClaim, v)
    /\ UNCHANGED <<now, claim, token, chain, opts, calls, input, output, padding>>

CheckExpiration ==
    /\ Fresh
    /\ input = << >>
    /\ \E v \in validateExpirationOutcomes(claim, opts.clockSkewSeconds, now) :
          Checked("validateExpiration", v)

CheckTiming ==
    /\ Fresh
    /\ input = << >>
    /\ \E v \in validateTimingOutcomes(claim, opts, now) : Checked("validateTiming", v)

CheckIssuerChain ==
    /\ Fresh
    /\ input # << >>
    /\ Checked("validateIssuerChain", validateIssuerChain(claim, input[1]))

CheckKeyHierarchy ==
    /\ Fresh
    /\ input # << >>
    /\ Checked("validateKeyHierarchy", validateKeyHierarchy(claim, input[1]))

NextRules == CheckExpiration \/ CheckTiming \/ CheckIssuerChain \/ CheckKeyHierarchy

SpecRules == InitRules /\ [][NextRules]_vars

\* now > expires + skew and now < issuedAt - skew over the integers, written
\* so that no sum leaves the checker's integers.
PastExpiry(c, skew, clock) == c.expires_ > 0 /\ clock - skew > c.expires_
BeforeIssue(c, skew, clock) == c.issuedAt_ > 0 /\ clock + skew < c.issuedAt_

\* C15: expiry law: validateExpiration(claim, skew) returns failure iff
\* claim.expires > 0 and now > claim.expires + skew; it returns success
\* whenever expires <= 0 and at the boundary now = expires + skew.
C15_ExpiryLaw ==
    result.op = "validateExpiration" =>
        /\ ~result.verdict.valid <=> PastExpiry(claim, opts.clockSkewSeconds, now)
        /\ ~result.verdict.valid => VerdictKind(result.verdict) = "Expired"

\* C16: validateTiming runs the not-before check only if checkNotBefore and
\* the expiration check only if checkExpiration, in that order, both with
\* clockSkewSeconds: not-yet-valid when checkNotBefore, issuedAt > 0 and
\* now < issuedAt - skew; otherwise expired when checkExpiration,
\* expires > 0 and now > expires + skew; otherwise success.
C16_TimingOrder ==
    result.op = "validateTiming" =>
        IF opts.checkNotBefore /\ BeforeIssue(claim, opts.clockSkewSeconds, now)
        THEN VerdictKind(result.verdict) = "NotYetValid"
        ELSE IF opts.checkExpiration /\ PastExpiry(claim, opts.clockSkewSeconds, now)
        THEN VerdictKind(result.verdict) = "Expired"
        ELSE result.verdict.valid

\* The hierarchy rule in the words of C17.
HierarchyRule(child, parent) ==
    /\ child.subject_ # << >>
    /\ child.issuer_ # << >>
    /\ parent.subject_ # << >>
    /\ child.issuer_[1] = parent.subject_[1]
    /\ \/ /\ <<child.subject_[1], parent.subject_[1]>> = <<ChO, ChO>>
          /\ child.subject_ = parent.subject_
       \/ <<child.subject_[1], parent.subject_[1]>> = <<ChA, ChO>>
       \/ <<child.subject_[1], parent.subject_[1]>> = <<ChU, ChA>>

\* C17: validateKeyHierarchy(child, parent) succeeds iff child.subject,
\* child.issuer and parent.subject are non-empty, the first characters of
\* child.issuer and parent.subject are equal, and the first characters of
\* child.subject and parent.subject are ('O','O') with equal subjects, or
\* ('A','O'), or ('U','A'); every other prefix combination fails.
C17_KeyHierarchy ==
    result.op = "validateKeyHierarchy" =>
        /\ result.verdict.valid <=> HierarchyRule(claim, input[1])
        /\ ~result.verdict.valid => VerdictKind(result.verdict) = "HierarchyViolation"

\* A self-signed operator was accepted.
C17_Witness ==
    /\ result.op = "validateKeyHierarchy"
    /\ claim.subject_ = KeyO1
    /\ claim.issuer_ = KeyO1
    /\ input[1].subject_ = KeyO1
    /\ result.verdict.valid

\* C18: validateIssuerChain(child, parent) succeeds iff child.issuer and
\* parent.subject are both non-empty and equal as strings, whatever the
\* other fields of the two claims are.
C18_IssuerChain ==
    result.op = "validateIssuerChain" =>
        /\ result.verdict.valid <=>
              /\ claim.issuer_ # << >>
              /\ input[1].subject_ # << >>
              /\ claim.issuer_ = input[1].subject_
        /\ ~result.verdict.valid => VerdictKind(result.verdict) = "ChainBroken"

\* A user naming an operator as its issuer passed the chain rule, the
\* parent's signing keys and the child's expiry notwithstanding.
C18_Witness ==
    /\ result.op = "validateIssuerChain"
    /\ claim.subject_ = KeyU1
    /\ claim.issuer_ = KeyO1
    /\ claim.expires_ = 2
    /\ input[1].subject_ = KeyO1
    /\ input[1].signingKeys_ = <<KeyO2>>
    /\ result.verdict.valid

-----------------------------------------------------------------------------
(* Base64url and token framing on arbitrary strings *)

MaxBytes == 5

\* Bytes with every bit position set and clear, the dot and the padding
\* character among them; 251 and 255 have the two last characters of the
\* alphabet as their top six bits.
ByteChoices == {0, Dot, Pad, 97, 251, 255}

RECURSIVE Strings(_)
Strings(n) ==
    IF n = 0 THEN {<< >>}
    ELSE Strings(n - 1) \cup {Append(s, b) : s \in {t \in Strings(n - 1) : Len(t) = n - 1}, b \in ByteChoices}

InitCodec ==
    /\ input \in Strings(MaxBytes)
    /\ now = 1
    /\ claim = NoClaim
    /\ token = << >>
    /\ chain = << >>
    /\ opts = DefaultOptions
    /\ result = NoOutcome
    /\ calls = << >>
    /\ output = << >>
    /\ padding = 0

\* token = base64url_encode(input)
EncodeBytes ==
    /\ Fresh
    /\ token' = base64url_encode(input)
    /\ result' = Outcome("base64url_encode", "none", TRUE, "none", NoClaim, success)
    /\ UNCHANGED <<now, claim, chain, opts, calls, input, output, padding>>

\* output = base64url_decode(token), of the text just encoded
DecodeText ==
    /\ result.op = "base64url_encode"
    /\ \E decoded \in {base64url_decode(token)} :
          /\ output' = decoded.bytes
          /\ result' = Outcome("base64url_decode", "none", decoded.ok, decoded.err, NoClaim, success)
    /\ UNCHANGED <<now, claim, token, chain, opts, calls, input, padding>>

\* chain = the three parts parseJwt(input) returns
SplitToken ==
    /\ Fresh
    /\ \E parts \in {parseJwt(input)} :
          /\ chain' = IF parts.ok
                      THEN <<parts.header_b64, parts.payload_b64, parts.signature_b64>>
                      ELSE << >>
          /\ token' = parts.signing_input
          /\ result' = Outcome("parseJwt", "none", parts.ok,
                               IF parts.ok THEN "none" ELSE "MalformedToken", NoClaim, success)
    /\ UNCHANGED <<now, claim, opts, calls, input, output, padding>>

\* The caller has no text yet and encodes a claim: input is the token encode
\* returns, output the bytes encode handed to the signer.
EncodeToken ==
    /\ Fresh
    /\ input = << >>
    /\ \E c \in {OperatorClaims(KeyO1), setIssuer(AccountClaims(KeyA1), KeyO1)},
          seed \in SeedChoices, random_bytes \in RandomChoices :
          \E e \in {encode(c, seed, random_bytes, now)} :
              /\ claim' = c
              /\ input' = IF e.ok THEN e.jwt ELSE << >>
              /\ output' = IF e.ok THEN e.signed ELSE << >>
              /\ calls' = e.calls
              /\ result' = Outcome("encode", "none", e.ok, e.err, NoClaim, success)
    /\ UNCHANGED <<now, token, chain, opts, padding>>

\* output = base64url_decode(input), of a text as it arrives
DecodeInput ==
    /\ Fresh
    /\ \E decoded \in {base64url_decode(input)} :
          /\ output' = decoded.bytes
          /\ result' = Outcome("base64url_decode_text", "none", decoded.ok, decoded.err,
                               NoClaim, success)
    /\ UNCHANGED <<now, claim, token, chain, opts, calls, input, padding>>

NextCodec == EncodeBytes \/ DecodeText \/ SplitToken \/ DecodeInput \/ EncodeToken

SpecCodec == InitCodec /\ [][NextCodec]_vars

\* A-Z a-z 0-9 '-' '_'
UrlSafe == (65..90) \cup (97..122) \cup (48..57) \cup {45, 95}

\* C19: Base64url round trip: for every byte string b, the empty one and
\* lengths 0, 1 and 2 modulo 3 included, base64url_decode(base64url_encode(b))
\* = b, and base64url_encode(b) contains only characters of A-Z a-z 0-9
\* '-' '_' (never '+', '/' or '=').
C19_Base64RoundTrip ==
    /\ result.op \in {"base64url_encode", "base64url_decode"} =>
          \A k \in 1..Len(token) : token[k] \in UrlSafe
    /\ result.op = "base64url_decode" => result.ok /\ output = input

\* A string of length 2 modulo 3 whose text holds both '-' and '_' came back.
C19_Witness ==
    /\ result.op = "base64url_decode"
    /\ Len(input) % 3 = 2
    /\ \E k \in 1..Len(token) : token[k] = 45
    /\ \E k \in 1..Len(token) : token[k] = 95
    /\ output = input

\* Fewer than two dots, more than two dots, or an empty part.
Malformed(jwt) ==
    \/ Cardinality(DotPositions(jwt)) < 2
    \/ Cardinality(DotPositions(jwt)) > 2
    \/ /\ Cardinality(DotPositions(jwt)) = 2
       /\ \/ FirstDot(jwt) = 1
          \/ LastDot(jwt) = FirstDot(jwt) + 1
          \/ LastDot(jwt) = Len(jwt)

\* C20: splitting a token fails with a malformed-token error iff the token
\* has fewer than two dots, more than two dots, or an empty header, payload
\* or signature segment; otherwise it succeeds and the three returned
\* segments joined with dots reproduce the token exactly.
C20_TokenFraming ==
    result.op = "parseJwt" =>
        /\ ~result.ok <=> Malformed(input)
        /\ ~result.ok => result.err = "MalformedToken"
        /\ result.ok => chain[1] \o <<Dot>> \o chain[2] \o <<Dot>> \o chain[3] = input

\* A token of three one-character parts was split.
C20_Witness ==
    /\ result.op = "parseJwt"
    /\ result.ok
    /\ Len(input) = 5
    /\ chain = <<<<input[1]>>, <<input[3]>>, <<input[5]>>>>

-----------------------------------------------------------------------------
(* Further claims about the caller's life with one claim object *)

\* 0-9 a-f
LowerHex == (48..57) \cup (97..102)

\* The jti member of a token's payload.
TokenJti(jwt) == TokenPayload(jwt).val.v["jti"].v

\* Claims as constructors and setters leave them, one of each variant ready
\* to encode and a user without an issuer.
FreshClaims ==
    {OperatorClaims(KeyO1),
     addSigningKey(setIssuer(AccountClaims(KeyA1), KeyO1), KeyO2),
     setIssuerAccount(setIssuer(UserClaims(KeyU1), KeyA1), KeyA1),
     UserClaims(KeyU1)}

InitReencode ==
    /\ claim \in FreshClaims
    /\ now = 1
    /\ token = << >>
    /\ chain = << >>
    /\ opts = DefaultOptions
    /\ result = NoOutcome
    /\ calls = << >>
    /\ input = << >>
    /\ output = << >>
    /\ padding = 0

\* claim.encode(seed) once more; the caller keeps the earlier token in output.
EncodeAgain ==
    /\ token # << >>
    /\ output = << >>
    /\ \E seed \in SeedChoices, random_bytes \in RandomChoices :
          \E e \in {encode(claim, seed, random_bytes, now)} :
              /\ result' = Outcome("encode", "again", e.ok, e.err, NoClaim, success)
              /\ token' = IF e.ok THEN e.jwt ELSE << >>
              /\ calls' = e.calls
    /\ output' = token
    /\ UNCHANGED <<now, claim, chain, opts, input, padding>>

NextReencode ==
    \/ token = << >> /\ Encode
    \/ EncodeAgain
    \/ SetName
    \/ SetExpires
    \/ Tick

SpecReencode == InitReencode /\ [][NextReencode]_vars

\* C21: encode does not modify or consume the claim: across every encode
\* the claim's fields stay what the constructor and setters last set and
\* issuedAt() stays 0; after an encode the same claim can be encoded again;
\* every encode draws random bytes anew and emits a jti of exactly 32
\* lowercase hexadecimal characters.
C21_EncodeFrame ==
    /\ [][result'.op = "encode" => claim' = claim]_vars
    /\ [](claim.issuedAt_ = 0)
    /\ [](result.op = "encode" /\ result.ok =>
            /\ calls[1] = "randomBytes"
            /\ \E jti \in {TokenJti(token)} :
                  /\ Len(jti) = 2 * JTI_BYTES
                  /\ \A k \in 1..Len(jti) : jti[k] \in LowerHex
                  /\ \E random_bytes \in RandomChoices : jti = generateJti(random_bytes)
            /\ \A seed \in SeedChoices, random_bytes \in RandomChoices :
                  ValidSeed(seed) => encode(claim, seed, random_bytes, now).ok)

\* A claim was encoded, given an expiry and a name, and encoded twice more:
\* the two tokens carry different jti and the claim is as the setters left it.
C21_Witness ==
    /\ result.op = "encode"
    /\ result.arg = "again"
    /\ result.ok
    /\ output # << >>
    /\ TokenJti(output) # TokenJti(token)
    /\ claim.subject_ = KeyA1
    /\ claim.issuer_ = KeyO1
    /\ claim.name_ = Some(NameN)
    /\ claim.expires_ = MaxTime + 2
    /\ claim.signingKeys_ = <<KeyO2>>
    /\ claim.issuedAt_ = 0

-----------------------------------------------------------------------------
(* One token validated again and again while the clock advances *)

\* Operator tokens expiring at 2, never, and at the largest time there is; a
\* user token issued after the clock starts.  Each signed by its issuer and
\* by another key.
ClockContents ==
    {[OperatorClaims(KeyO1) EXCEPT !.issuedAt_ = 1, !.expires_ = exp] :
        exp \in {0, 2, INT64_MAX}}
    \cup {PeerUser}
ClockTokens == {Craft(c, "none", s) : c \in ClockContents, s \in {"issuer", "other"}}

InitClock ==
    /\ now = 1
    /\ token \in ClockTokens
    /\ opts \in OptionChoices
    /\ claim = NoClaim
    /\ chain = << >>
    /\ result = NoOutcome
    /\ calls = << >>
    /\ input = << >>
    /\ output = << >>
    /\ padding = 0

\* validate(token, opts) at the present time, which input records.
ValidateNow ==
    /\ \E v \in validateOutcomes(token, opts, now) :
          result' = Outcome("validate", "none", TRUE, "none", NoClaim, v)
    /\ input' = <<now>>
    /\ UNCHANGED <<now, claim, token, chain, opts, calls, output, padding>>

\* The clock runs past every expiry but the largest.
TickClock ==
    /\ now < MaxTime + 3
    /\ now' = now + 1
    /\ UNCHANGED <<claim, token, chain, opts, result, calls, input, output, padding>>

NextClock == ValidateNow \/ TickClock

SpecClock == InitClock /\ [][NextClock]_vars

\* The checks of validate other than expiration pass on the token at time t.
OtherChecksPass(jwt, c, options, t) ==
    /\ options.checkSignature => verify(jwt)
    /\ options.checkNotBefore => ~BeforeIssue(c, options.clockSkewSeconds, t)
    /\ Claims_validate(c)

\* What C22 says of one validate call made at time t on a token that decodes
\* into c.
ExpiryVerdict(jwt, c, options, t, v) ==
    /\ c.expires_ > 0 /\ ~PastExpiry(c, options.clockSkewSeconds, t)
            /\ OtherChecksPass(jwt, c, options, t) => v.valid
    /\ c.expires_ > 0 /\ PastExpiry(c, options.clockSkewSeconds, t) =>
            /\ ~v.valid
            /\ OtherChecksPass(jwt, c, options, t) => VerdictKind(v) = "Expired"
    /\ c.expires_ = 0 => VerdictKind(v) # "Expired"

\* C22: as the clock advances, validity under the expiration check is
\* monotone: with checkExpiration on, a token with exp > 0 is accepted at
\* every time now <= exp + skew at which its other enabled checks pass, is
\* rejected at every time now > exp + skew (as expired when its other checks
\* pass), and once rejected as expired is never accepted at a later time
\* with the same options; a token without expiration is never rejected as
\* expired.
C22_ExpiryMonotone ==
    /\ [](result.op = "validate" /\ opts.checkExpiration =>
            \E d \in {decode(token)} :
                d.ok => ExpiryVerdict(token, d.claims, opts, input[1], result.verdict))
    /\ [][/\ result.op = "validate"
          /\ VerdictKind(result.verdict) = "Expired"
          /\ opts.checkExpiration
          => ~result'.verdict.valid]_vars

-----------------------------------------------------------------------------
(* Two threads, each with its own claim object and token *)

Threads == {1, 2}

\* The calls a thread makes, as the steps they take in the code: a setter is
\* one step; encode is validate(), generateJti(), getCurrentTimestamp() and
\* the building and signing of the token; decode, verify and validate are
\* one step each on the thread's token.
EncodeSteps == <<"validate", "generateJti", "getCurrentTimestamp", "signData">>
Programs1 == {EncodeSteps, <<"setName">> \o EncodeSteps}
Programs2 == {EncodeSteps, <<"setExpires">> \o EncodeSteps}
TokenSteps == {"decode", "verify", "validateToken"}
TokenPrograms == {<<s>> : s \in TokenSteps}

Task(program, start, seed, jwt) ==
    [program |-> program, start |-> start, seed |-> seed, jwt |-> jwt]
Tasks1 == {Task(p, OperatorClaims(KeyO1), SeedOf(KeyO1), << >>) : p \in Programs1}
Tasks2 ==
    {Task(p, c, SeedOf(KeyO1), << >>) :
        p \in Programs2, c \in {setIssuer(AccountClaims(KeyA1), KeyO1), UserClaims(KeyU1)}}
    \cup {Task(p, NoClaim, << >>, Craft(PeerAccount, "none", "issuer")) : p \in TokenPrograms}

\* What encode keeps on its stack between its steps.
NoLocals == [random |-> << >>, jti |-> << >>, clock |-> 0]

\* chain holds each thread's task, claim its claim object, calls the number
\* of steps it has taken, input its locals, token and result what its last
\* call returned.  The clock is the one thing the threads share.
InitThreads ==
    /\ now = 1
    /\ chain \in {<<t1, t2>> : t1 \in Tasks1, t2 \in Tasks2}
    /\ claim = [t \in Threads |-> chain[t].start]
    /\ calls = [t \in Threads |-> 0]
    /\ input = [t \in Threads |-> NoLocals]
    /\ token = [t \in Threads |-> << >>]
    /\ result = [t \in Threads |-> NoOutcome]
    /\ opts = DefaultOptions
    /\ output = << >>
    /\ padding = 0

\* The next step of thread t, "done" after its last.
StepOf(t) ==
    IF calls[t] < Len(chain[t].program) THEN chain[t].program[calls[t] + 1] ELSE "done"
Advance(t) == calls' = [calls EXCEPT ![t] = @ + 1]
\* An exception leaves the call: the thread's program ends.
Abandon(t) == calls' = [calls EXCEPT ![t] = Len(chain[t].program)]

RunSetter(t) ==
    /\ StepOf(t) \in {"setName", "setExpires"}
    /\ claim' = [claim EXCEPT ![t] = IF StepOf(t) = "setName" THEN setName(@, NameN)
                                     ELSE setExpires(@, MaxTime + 2)]
    /\ Advance(t)
    /\ UNCHANGED <<now, token, chain, opts, result, input, output, padding>>

\* encode: validate()
RunValidate(t) ==
    /\ StepOf(t) = "validate"
    /\ IF Claims_validate(claim[t])
       THEN Advance(t) /\ UNCHANGED result
       ELSE /\ Abandon(t)
            /\ result' = [result EXCEPT ![t] =
                             Outcome("encode", "none", FALSE, "StructuralInvalid", NoClaim, success)]
    /\ UNCHANGED <<now, claim, token, chain, opts, input, output, padding>>

\* A generateJti that kept the identifier in one buffer for all threads.
RunGenerateJti_SharedBuffer(t) ==
    /\ StepOf(t) = "generateJti"
    /\ \E random_bytes \in RandomChoices :
          input' = [u \in Threads |->
                       IF u = t
                       THEN [input[u] EXCEPT !.random = random_bytes,
                                             !.jti = generateJti(random_bytes)]
                       ELSE [input[u] EXCEPT !.jti = generateJti(random_bytes)]]
    /\ Advance(t)
    /\ UNCHANGED <<now, claim, token, chain, opts, result, output, padding>>

\* encode: std::string jti = generateJti()
RunGenerateJti(t) ==
    /\ StepOf(t) = "generateJti"
    /\ \E random_bytes \in RandomChoices :
          input' = [input EXCEPT ![t].random = random_bytes,
                                 ![t].jti = generateJti(random_bytes)]
    /\ Advance(t)
    /\ UNCHANGED <<now, claim, token, chain, opts, result, output, padding>>

\* encode: iat = (issuedAt_ == 0) ? getCurrentTimestamp() : issuedAt_
RunGetCurrentTimestamp(t) ==
    /\ StepOf(t) = "getCurrentTimestamp"
    /\ input' = [input EXCEPT ![t].clock = now]
    /\ Advance(t)
    /\ UNCHANGED <<now, claim, token, chain, opts, result, output, padding>>

\* encode from the payload on: build, serialise, sign, join.
SignedToken(c, seed, jti, iat) ==
    LET header_b64 == base64url_encode(createHeader)
        payload_b64 == base64url_encode(dump(BuildPayload(c, jti, iat)))
        signing_input == header_b64 \o <<Dot>> \o payload_b64
    IN  IF ~ValidSeed(seed) THEN << >>
        ELSE signing_input \o <<Dot>>
             \o base64url_encode(Sign(PublicKeyOf(seed), signing_input))

RunSignData(t) ==
    /\ StepOf(t) = "signData"
    /\ \E jwt \in {SignedToken(claim[t], chain[t].seed, input[t].jti,
                               IF claim[t].issuedAt_ = 0 THEN input[t].clock
                               ELSE claim[t].issuedAt_)} :
          /\ token' = [token EXCEPT ![t] = jwt]
          /\ result' = [result EXCEPT ![t] =
                           Outcome("encode", "none", jwt # << >>,
                                   IF jwt # << >> THEN "none" ELSE "InvalidSeed",
                                   NoClaim, success)]
    /\ Advance(t)
    /\ UNCHANGED <<now, claim, chain, opts, input, output, padding>>

\* decode, verify or validate on the thread's token.
RunOnToken(t) ==
    /\ StepOf(t) \in TokenSteps
    /\ \E d \in {decode(chain[t].jwt)} :
          result' = [result EXCEPT ![t] =
              CASE StepOf(t) = "decode" ->
                      Outcome("decode", "generic", d.ok, d.err, d.claims, success)
                [] StepOf(t) = "verify" ->
                      Outcome("verify", "none", verify(chain[t].jwt), "none", NoClaim, success)
                [] OTHER ->
                      Outcome("validate", "none", TRUE, "none", NoClaim,
                              validateSteps(d, verify(chain[t].jwt), opts, now))]
    /\ input' = [input EXCEPT ![t].clock = now]
    /\ Advance(t)
    /\ UNCHANGED <<now, claim, token, chain, opts, output, padding>>

NextThreads ==
    \/ \E t \in Threads : RunSetter(t)
    \/ \E t \in Threads : RunValidate(t)
    \/ \E t \in Threads : RunGenerateJti(t)
    \/ \E t \in Threads : RunGetCurrentTimestamp(t)
    \/ \E t \in Threads : RunSignData(t)
    \/ \E t \in Threads : RunOnToken(t)
    \/ Tick

SpecThreads == InitThreads /\ [][NextThreads]_vars

Finished(t) == calls[t] = Len(chain[t].program)

\* The claim object of thread t as its own setter calls leave it.
OwnClaim(t) ==
    IF calls[t] >= 1 /\ chain[t].program[1] = "setName" THEN setName(chain[t].start, NameN)
    ELSE IF calls[t] >= 1 /\ chain[t].program[1] = "setExpires"
    THEN setExpires(chain[t].start, MaxTime + 2)
    ELSE chain[t].start

\* What the calls of thread t return when it runs alone on its claim and
\* token, with the random bytes it drew and the clock value it read.
AloneResult(t) ==
    CASE chain[t].program[1] = "decode" ->
            result[t] = Outcome("decode", "generic", decode(chain[t].jwt).ok,
                                decode(chain[t].jwt).err, decode(chain[t].jwt).claims, success)
      [] chain[t].program[1] = "verify" ->
            result[t] = Outcome("verify", "none", verify(chain[t].jwt), "none", NoClaim, success)
      [] chain[t].program[1] = "validateToken" ->
            result[t] = Outcome("validate", "none", TRUE, "none", NoClaim,
                                validate(chain[t].jwt, opts, input[t].clock))
      [] OTHER ->
            \E e \in {encode(OwnClaim(t), chain[t].seed, input[t].random, input[t].clock)} :
                /\ result[t].op = "encode"
                /\ result[t].ok = e.ok
                /\ result[t].err = e.err
                /\ token[t] = IF e.ok THEN e.jwt ELSE << >>

\* C23: operations running concurrently on distinct claim objects and
\* tokens do not interfere: in every interleaving of two threads working on
\* different claims, each thread's claim is what its own setters made it and
\* each thread gets the results it would get running alone, up to the random
\* bytes it drew and the clock value it read.
C23_NoInterference ==
    \A t \in Threads :
        /\ claim[t] = OwnClaim(t)
        /\ Finished(t) => AloneResult(t)

\* Both threads encoded their claims, with different random bytes and
\* different readings of the clock.
C23_Witness ==
    /\ Finished(1)
    /\ Finished(2)
    /\ result[1].ok
    /\ result[2].op = "encode"
    /\ result[2].ok
    /\ input[1].random # input[2].random
    /\ input[1].clock # input[2].clock

-----------------------------------------------------------------------------
(* The expiry invariant on what encode emits *)

\* C24: encode never emits a token that breaks the expiry invariant: for
\* every claim encode accepts, the emitted payload has either no exp or
\* exp > iat, also when issuedAt is unset and iat is the current time; so
\* every token encode emits passes the matching decoder's structural
\* validation.
C24_EncodedExpiry ==
    result.op = "encode" /\ result.ok =>
        \E payload \in {TokenPayload(token).val} :
            /\ Contains(payload, "exp") => payload.v["exp"].v > payload.v["iat"].v
            /\ decodeClaims(claim.variant, token).ok

-----------------------------------------------------------------------------
(* Claims about base64url_decode on arbitrary text *)

\* The text without its trailing '=' characters.
Stripped(text) ==
    SubSeq(text, 1, CHOOSE n \in 0..Len(text) :
                        /\ \A k \in (n + 1)..Len(text) : text[k] = Pad
                        /\ n > 0 => text[n] # Pad)

\* C25: base64url_decode rejects every input that, after its trailing '='
\* characters are stripped, contains a character outside the alphabet
\* A-Z a-z 0-9 '-' '_' (a '=' that is not trailing included) or whose final
\* group is exactly 1 leftover character, and accepts every other input.
C25_DecodeRejects ==
    result.op = "base64url_decode_text" =>
        (~result.ok <=>
            \/ \E k \in 1..Len(Stripped(input)) : Stripped(input)[k] \notin UrlSafe
            \/ Len(Stripped(input)) % 4 = 1)

-----------------------------------------------------------------------------
(* The signing input *)

\* The text of a token up to but not including its second dot.
BeforeSecondDot(jwt) == SubSeq(jwt, 1, LastDot(jwt) - 1)

\* C26: for every token that splits successfully, signing_input is the
\* token's text up to but not including its second dot, and for every token
\* encode produces, the bytes handed to the signer are exactly that prefix
\* of the returned token, so the signing input at sign time and at verify
\* time coincide.
C26_SigningInput ==
    /\ result.op = "parseJwt" /\ result.ok =>
          /\ token = BeforeSecondDot(input)
          /\ token = chain[1] \o <<Dot>> \o chain[2]
    /\ result.op = "encode" /\ result.ok =>
          /\ output = BeforeSecondDot(input)
          /\ parseJwt(input).signing_input = output
          /\ \E seed \in SeedChoices :
                /\ ValidSeed(seed)
                /\ Verify(PublicKeyOf(seed), parseJwt(input).signing_input,
                          base64url_decode(parseJwt(input).signature_b64).bytes)

\* encode returned a token, having signed its text before the second dot.
C26_Witness ==
    /\ result.op = "encode"
    /\ result.ok
    /\ parseJwt(input).ok
    /\ output = parseJwt(input).signing_input
    /\ verify(input)

-----------------------------------------------------------------------------
(* What a verified signature says about the rest of the token *)

\* The header names the algorithm the decoders insist on.
HeaderAlgorithmOk(jwt) ==
    /\ TokenHeader(jwt).ok
    /\ Contains(TokenHeader(jwt).val, "alg")
    /\ EqualsString(TokenHeader(jwt).val.v["alg"], JWT_ALGORITHM)

\* The payload's nats object has a type jwt::decode knows and version 2.
NatsRecognised(jwt) ==
    \E payload \in {TokenPayload(jwt)} :
        /\ payload.ok
        /\ Contains(payload.val, "nats")
        /\ Contains(payload.val.v["nats"], "type")
        /\ IsString(payload.val.v["nats"].v["type"])
        /\ payload.val.v["nats"].v["type"].v \in {STR_OPERATOR, STR_ACCOUNT, STR_USER}
        /\ Contains(payload.val.v["nats"], "version")
        /\ EqualsInt(payload.val.v["nats"].v["version"], JWT_VERSION)

\* C27 as stated: verify(token) = true implies that decode(token) succeeds:
\* the header has alg "ed25519-nkey", the nats object has a recognised type
\* and version 2, and the claims pass structural validation.
C27_VerifiedDecodes ==
    result.op = "verify" /\ result.ok =>
        /\ HeaderAlgorithmOk(token)
        /\ NatsRecognised(token)
        /\ decode(token).ok
        /\ Claims_validate(decode(token).claims)

\* C27: verify(token) = true implies only what verify reads: the token
\* splits into three segments, its payload is JSON with a string iss, and
\* the signature segment is a signature by iss's key over the text before
\* the second dot; when decode(token) succeeds as well, the claims' issuer
\* is that iss. The header and the nats object are not examined at all.
C27_VerifiedPayload ==
    result.op = "verify" /\ result.ok =>
        /\ parseJwt(token).ok
        /\ TokenPayload(token).ok
        /\ Contains(TokenPayload(token).val, "iss")
        /\ IsString(TokenPayload(token).val.v["iss"])
        /\ Verify(TokenPayload(token).val.v["iss"].v, BeforeSecondDot(token),
                  base64url_decode(parseJwt(token).signature_b64).bytes)
        /\ decode(token).ok =>
              decode(token).claims.issuer_ = TokenPayload(token).val.v["iss"].v

\* verify has returned true on a token that decode refuses, its header
\* being JSON that names another algorithm.
C27_Witness ==
    /\ result.op = "verify"
    /\ result.ok
    /\ TokenHeader(token).ok
    /\ ~HeaderAlgorithmOk(token)
    /\ ~decode(token).ok

-----------------------------------------------------------------------------
(* The root of a validated chain *)

\* The token is a link the hierarchy allows under the one before it, read off
\* the decoded claims: an account under an operator, a user under an account,
\* or the same operator again, the child's issuer being the parent's subject.
DirectlyUnder(child, parent) ==
    /\ child.issuer_ = parent.subject_
    /\ \/ child.variant = "account" /\ parent.variant = "operator"
       \/ child.variant = "user" /\ parent.variant = "account"
       \/ /\ child.variant = "operator"
          /\ parent.variant = "operator"
          /\ child.subject_ = parent.subject_

\* C28: whenever validateChain(tokens, opts) succeeds with
\* opts.checkIssuerChain set, tokens[0] is an Operator token whose issuer
\* equals its subject, and every later token is an Account directly under an
\* Operator, a User directly under an Account, or the same Operator as its
\* parent.
C28_ChainAnchored ==
    (result.op = "validateChain" /\ result.verdict.valid /\ opts.checkIssuerChain) =>
        /\ PoolClaims[chain[1]].variant = "operator"
        /\ PoolClaims[chain[1]].issuer_ = PoolClaims[chain[1]].subject_
        /\ \A i \in 2..Len(chain) :
              DirectlyUnder(PoolClaims[chain[i]], PoolClaims[chain[i - 1]])

-----------------------------------------------------------------------------
(* Decoding as a one-to-one map *)

\* The text ends in no '='.
Unpadded(text) == text = << >> \/ text[Len(text)] # Pad

\* The texts that differ from text in their last character only.
LastCharacterVariants(text) ==
    {[text EXCEPT ![Len(text)] = b] : b \in ByteChoices \ {Pad}} \ {text}

\* C29: base64url_decode is injective on unpadded text: for every text s
\* without a trailing '=' that it accepts,
\* base64url_encode(base64url_decode(s)) = s, so two different unpadded
\* texts never decode to the same bytes.
C29_DecodeInjective ==
    (result.op = "base64url_decode_text" /\ result.ok /\ Unpadded(input)) =>
        /\ base64url_encode(output) = input
        /\ input # << >> =>
              \A other \in LastCharacterVariants(input) :
                  base64url_decode(other).ok => base64url_decode(other).bytes # output

-----------------------------------------------------------------------------
(* The expiry sum in 64-bit arithmetic *)

\* C30: with the sums computed in 64-bit signed arithmetic,
\* validateExpiration never reports a claim as expired while now <= expires:
\* for every expires in 1..2^63-1 and every clockSkewSeconds >= 0,
\* expires + clockSkewSeconds does not wrap around, so increasing the skew
\* never turns a success into a failure.
C30_SkewNeverWraps ==
    (result.op = "validateExpiration" /\ claim.expires_ >= 1
        /\ claim.expires_ <= INT64_MAX /\ opts.clockSkewSeconds >= 0) =>
        /\ ~Int64Overflows(claim.expires_, opts.clockSkewSeconds)
        /\ now <= claim.expires_ => result.verdict.valid
        /\ validateExpiration(claim, 0, now).valid => result.verdict.valid

====
